---- MODULE Spec2Model ----
(***************************************************************************)
(* KPI calculation engine of the KPIstrapi backend.                        *)
(*                                                                         *)
(* KPICalculator.calculate (backend/kpi_calculator_improved.py) joins the  *)
(* attendance records of a timesheet against the KPI roster and emits one  *)
(* KPIResult or one KPIError per record.  The loop of calculate is the     *)
(* state machine: one step per attendance record.                          *)
(*                                                                         *)
(* Numbers.  Python floats are modelled by exact scaled integers:          *)
(*   days          in thousandths of a day   (Milli units),                *)
(*   work_percent  in hundredths of a percent after round(.., 2),          *)
(*   money         in hundredths (kpi_sum, kpi_final).                     *)
(* round(x, 2) is modelled on the exact rational value with ties going to  *)
(* the even neighbour, which is what Python does for values that are       *)
(* exactly representable.  NaN and infinities are left out of the inputs.  *)
(*                                                                         *)
(* Strings that the code normalises (names, scheduleType, categoryCode)    *)
(* are sequences of one-character strings so that strip() and lower() are  *)
(* computed, not assumed.                                                  *)
(***************************************************************************)
EXTENDS Integers, Sequences, FiniteSets, TLC

\* ------------------------------------------------------------------ bounds
MaxEmployees == 2   \* attendance records in one batch run
MaxRoster    == 2   \* roster entries in one batch run
MaxNorm      == 3   \* nch_day and nd_shift range over 0..MaxNorm
MaxLetters   == 2   \* letters_weekday and letters_sat range over 0..MaxLetters

\* ------------------------------------------------------------------ units
Milli == 1000       \* thousandths of a day per day
Cents == 100        \* hundredths per unit of money and of percent

\* Optional values: None, or a one-element tuple holding the value
None == <<>>
Some(x) == <<x>>

\* ------------------------------------------------------------- arithmetic
Min(a, b) == IF b < a THEN b ELSE a
Max(a, b) == IF b > a THEN b ELSE a

\* n / d rounded to the nearest integer, ties to the even neighbour (d > 0)
RoundDiv(n, d) ==
  LET q == n \div d
      r == n % d
  IN  IF 2 * r < d THEN q
      ELSE IF 2 * r > d THEN q + 1
      ELSE IF q % 2 = 0 THEN q ELSE q + 1

\* ---------------------------------------------------------------- strings
IsSpace(c) == c = " "

Lower(c) ==
  CASE c = "A" -> "a"
    [] c = "B" -> "b"
    [] c = "D" -> "d"
    [] c = "S" -> "s"
    [] c = "Y" -> "y"
    [] OTHER   -> c

\* str.lower()
lower(s) == [i \in 1..Len(s) |-> Lower(s[i])]

\* str.strip(): drop leading and trailing whitespace
RECURSIVE lstrip(_)
lstrip(s) == IF s # <<>> /\ IsSpace(Head(s)) THEN lstrip(Tail(s)) ELSE s

RECURSIVE rstrip(_)
rstrip(s) ==
  IF s # <<>> /\ IsSpace(s[Len(s)]) THEN rstrip(SubSeq(s, 1, Len(s) - 1)) ELSE s

strip(s) == rstrip(lstrip(s))

\* string literals of the code
STR_EMPTY == <<>>
STR_DAY   == <<"d", "a", "y">>
STR_SHIFT == <<"s", "h", "i", "f", "t">>
STR_4     == <<"4">>

\* ------------------------------------------------------------ data types
\* EmployeeData
EmployeeData(fio, lw, lsat, lsun, lhol, nums, wdt) ==
  [fio |-> fio,
   letters_weekday |-> lw, letters_sat |-> lsat,
   letters_sun |-> lsun, letters_holiday |-> lhol,
   numbers_weekday |-> nums[1], numbers_sat |-> nums[2],
   numbers_sun |-> nums[3], numbers_holiday |-> nums[4],
   worked_days_total |-> wdt]

\* one dict of kpi_table
RosterItem(fio, kpiSum, scheduleType, categoryCode) ==
  [fio |-> fio, kpiSum |-> kpiSum, scheduleType |-> scheduleType,
   department |-> "dept", categoryCode |-> categoryCode]

\* KPIError; its details text is fixed by the type and is left out
KPIError(fio, type) == [fio |-> fio, type |-> type]

\* ------------------------------------------------------------- variables
VARIABLES
  employees,   \* argument: list of EmployeeData
  kpi_table,   \* argument: list of roster dicts
  nch_day,     \* argument: norm of day-schedule employees
  nd_shift,    \* argument: norm of shift-schedule employees
  kpi_map,     \* local: lower-cased name -> KPIInfo
  results,     \* local: list of KPIResult
  errors,      \* local: list of KPIError
  seen_fios,   \* local: set of lower-cased names already processed
  idx,         \* position of the for loop (1-based index of the next record)
  pc,          \* "convert" | "start" | "loop" | "done" | "raised"
  employees_in, \* argument of calculate_kpi_for_employees: list of dicts
  previous,    \* what an earlier call of calculate() returned, or None
  legacy,      \* what the legacy calculator returned, or None
  files,       \* rows of KPI_FILE and of the four audit log files
  SESSIONS,    \* auth_utils_improved.SESSIONS: token -> session
  issued,      \* expires_at of every token create_session has returned
  now,         \* datetime.now(), in seconds
  last,        \* the last operation or request and how it was answered
  requests,    \* the calculation requests being served, by thread
  holidays_cache, \* calendar_manager._holidays_cache: set of <<y, m, d>>
  df,          \* timesheet grid: rows of cells, a cell being its text
  year,        \* argument of the parser
  month,       \* argument of the parser
  holiday_days, \* day numbers of the holidays of (year, month)
  parsed,      \* what parse_timesheet_from_excel gave, or None
  day_num,     \* argument of _classify_day
  day_type     \* what _classify_day returned, "" before the call

\* the state of the timesheet parser
parserVars == <<df, year, month, holiday_days, parsed, day_num, day_type>>

\* the requests in flight and the process-wide calendar
requestVars == <<requests, holidays_cache>>

\* the roster file with its logs, the sessions and the clock
backendVars == <<files, SESSIONS, issued, now, last>>

\* the legacy calculator's output and the rest of the backend
serviceVars == <<legacy, backendVars>>

\* what calculate() itself never touches
outerVars == <<employees_in, previous, parserVars, requestVars, serviceVars>>

\* the state of the calculator and of its wrapper
calcVars == <<employees, kpi_table, nch_day, nd_shift, kpi_map, results,
              errors, seen_fios, idx, pc, employees_in, previous>>

vars == <<employees, kpi_table, nch_day, nd_shift, kpi_map, results, errors,
          seen_fios, idx, pc, employees_in, previous, df, year, month,
          holiday_days, parsed, day_num, day_type, requests, holidays_cache,
          legacy, files, SESSIONS, issued, now, last>>

\* ------------------------------------------------------- roster index
EmptyMap == <<>>

\* KPIInfo built from one roster dict (the id, which calculate never reads,
\* is left out)
KPIInfo(item) ==
  [fio |-> strip(item.fio),
   kpi_sum |-> item.kpiSum,
   schedule_type |->
     IF lower(strip(item.scheduleType)) = STR_EMPTY
       THEN STR_DAY ELSE lower(strip(item.scheduleType)),
   department |-> item.department,
   category_code |-> strip(item.categoryCode)]

RECURSIVE _build_kpi_map(_)
_build_kpi_map(table) ==
  IF table = <<>> THEN EmptyMap
  ELSE LET prev == _build_kpi_map(SubSeq(table, 1, Len(table) - 1))
           item == table[Len(table)]
           fio  == strip(item.fio)
       IN  IF fio = STR_EMPTY THEN prev
           ELSE [k \in (DOMAIN prev) \cup {lower(fio)} |->
                   IF k = lower(fio) THEN KPIInfo(item) ELSE prev[k]]

\* ------------------------------------------------------------ rationals
RECURSIVE GCD(_, _)
GCD(a, b) == IF b = 0 THEN a ELSE GCD(b, a % b)

Abs(a) == IF a < 0 THEN -a ELSE a

\* the exact rational n / d (d > 0), kept in lowest terms
Frac(n, d) ==
  LET g == GCD(Abs(n), d)
  IN  [n |-> n \div g, d |-> d \div g]

FracLess(a, b) == a.n * b.d < b.n * a.d
FracMin(a, b)  == IF FracLess(b, a) THEN b ELSE a
FracMax(a, b)  == IF FracLess(a, b) THEN b ELSE a
FracMul(a, b)  == Frac(a.n * b.n, a.d * b.d)
\* a / k for an integer k > 0
FracDivInt(a, k) == Frac(a.n, a.d * k)

\* round(x, 2), as a count of hundredths
round2(x) == RoundDiv(x.n * Cents, x.d)

\* ------------------------------------------------------- payout formulas
\* (days_worked * 100.0) / days_assigned, then max(0.0, min(100.0, ..));
\* days_worked in thousandths of a day, the result in percent
work_percent_of(days_worked, days_assigned) ==
  LET raw == IF days_assigned > 0
               THEN Frac(days_worked * 100, Milli * days_assigned)
               ELSE Frac(0, 1)
  IN  FracMax(Frac(0, 1), FracMin(Frac(100, 1), raw))

\* variant: the payout taken from the percentage already rounded to 2 decimals
kpi_final_of_rounded_percent(work_percent, kpi_sum) ==
  FracMul(Frac(round2(work_percent), Cents * 100), Frac(kpi_sum, Cents))

\* (work_percent / 100.0) * kpi_sum; kpi_sum in hundredths, the result in money
kpi_final_of(work_percent, kpi_sum) ==
  FracMul(FracDivInt(work_percent, 100), Frac(kpi_sum, Cents))

\* variant: the normalisation step left out
normalize_days_missing(days_worked, days_assigned) == days_worked

\* max(0, min(days_worked, days_assigned)), in thousandths of a day
normalize_days(days_worked, days_assigned) ==
  Max(0, Min(days_worked, days_assigned * Milli))

\* variant: the timesheet total is ignored, the days are always derived
day_days_worked_derived_only(emp, days_assigned) ==
  (days_assigned - emp.letters_weekday) * Milli

\* the days actually worked of a day-schedule employee, before clamping:
\* the timesheet's own total when it has one, else assigned - not worked.
\* The total is a float or None (the parser's _try_float), so float() of it
\* cannot fail and the except branch of the code is not taken.
day_days_worked(emp, days_assigned) ==
  LET not_worked == emp.letters_weekday
  IN  IF emp.worked_days_total # None
        THEN emp.worked_days_total[1]
        ELSE (days_assigned - not_worked) * Milli

\* variant: the operands of the difference swapped
day_not_worked_swapped(days_assigned, days_worked) ==
  Max(days_worked - days_assigned * Milli, 0)

\* not_worked of a day result: max(days_assigned - days_worked, 0)
day_not_worked(days_assigned, days_worked) ==
  Max(days_assigned * Milli - days_worked, 0)

_calculate_day_kpi(emp, kpi_info, days_assigned) ==
  IF days_assigned <= 0 THEN None
  ELSE
    LET days_worked  == normalize_days(day_days_worked(emp, days_assigned),
                                       days_assigned)
        work_percent == work_percent_of(days_worked, days_assigned)
        kpi_final    == kpi_final_of(work_percent, kpi_info.kpi_sum)
    IN  Some([fio |-> emp.fio,
         schedule_type |-> "day",
         days_assigned |-> days_assigned,
         days_worked |-> round2(Frac(days_worked, Milli)),
         not_worked |-> day_not_worked(days_assigned, days_worked),
         letters_weekday |-> emp.letters_weekday,
         letters_sat |-> emp.letters_sat,
         letters_sun |-> emp.letters_sun,
         letters_holiday |-> emp.letters_holiday,
         numbers_weekday |-> emp.numbers_weekday,
         numbers_sat |-> emp.numbers_sat,
         numbers_sun |-> emp.numbers_sun,
         numbers_holiday |-> emp.numbers_holiday,
         work_percent |-> round2(work_percent),
         kpi_sum |-> kpi_info.kpi_sum,
         kpi_final |-> round2(kpi_final),
         department |-> kpi_info.department,
         category_code |-> kpi_info.category_code])

\* variant: Sunday letters counted as absences too
effective_not_worked_with_sunday(emp) ==
  emp.letters_weekday + emp.letters_sat + emp.letters_sun

\* absences of a shift-schedule employee: weekday and Saturday letters
effective_not_worked(emp) == emp.letters_weekday + emp.letters_sat

_calculate_shift_kpi(emp, kpi_info, days_assigned) ==
  IF days_assigned <= 0 THEN None
  ELSE
    LET days_worked  == normalize_days(
                          (days_assigned - effective_not_worked(emp)) * Milli,
                          days_assigned)
        work_percent == work_percent_of(days_worked, days_assigned)
        kpi_final    == kpi_final_of(work_percent, kpi_info.kpi_sum)
    IN  Some([fio |-> emp.fio,
         schedule_type |-> "shift",
         days_assigned |-> days_assigned,
         days_worked |-> round2(Frac(days_worked, Milli)),
         not_worked |-> effective_not_worked(emp) * Milli,
         letters_weekday |-> emp.letters_weekday,
         letters_sat |-> emp.letters_sat,
         letters_sun |-> emp.letters_sun,
         letters_holiday |-> emp.letters_holiday,
         numbers_weekday |-> emp.numbers_weekday,
         numbers_sat |-> emp.numbers_sat,
         numbers_sun |-> emp.numbers_sun,
         numbers_holiday |-> emp.numbers_holiday,
         work_percent |-> round2(work_percent),
         kpi_sum |-> kpi_info.kpi_sum,
         kpi_final |-> round2(kpi_final),
         department |-> kpi_info.department,
         category_code |-> kpi_info.category_code])

\* variant: the key keeps the letter case of the timesheet
fio_key_of_case_sensitive(fio) == fio

\* fio_key = fio.lower(), the key of seen_fios and of the kpi_map lookup
fio_key_of(fio) == lower(fio)

\* variant: the sentinel compared without trimming, against another code
is_student_wrong_code(kpi_info) == kpi_info.category_code = <<"3">>

\* kpi_info.category_code.strip() == "4"
is_student(kpi_info) == strip(kpi_info.category_code) = STR_4

\* kpi_info.schedule_type.lower() == "day"
is_day_schedule(kpi_info) == lower(kpi_info.schedule_type) = STR_DAY

\* ------------------------------------------------- failures in the try
\* A timesheet total is None, Some(thousandths), or BigInt(e): the Python
\* int 10**e, which calculate_kpi_for_employees passes through unconverted.
BigInt(e) == <<10, e>>

\* the largest e for which float(10**e) is a float
MaxFloatExp10 == 308

\* float(total) raises OverflowError, which "except (ValueError, TypeError)"
\* of _calculate_day_kpi does not catch
float_overflows(total) == Len(total) = 2 /\ total[2] > MaxFloatExp10

\* the try block of calculate() raises: only the day branch converts the
\* total, and only after the days_assigned <= 0 return
calculation_raises(emp, kpi_info, nch, nd) ==
  /\ is_day_schedule(kpi_info)
  /\ nch > 0
  /\ emp.worked_days_total # None
  /\ float_overflows(emp.worked_days_total)

\* the except branch of calculate(): errors.append(KPIError(fio,
\* "CALCULATION_ERROR", ..)); the loop goes on
calculation_error(errs, fio) ==
  Append(errs, KPIError(fio, "CALCULATION_ERROR"))

\* variant: a new result put in front of the list
append_result_in_front(rs, r) == <<r>> \o rs

\* results.append(result)
append_result(rs, r) == Append(rs, r)

\* ------------------------------------------------ the body of the loop
\* one iteration of "for emp in employees" on the locals st = [results,
\* errors, seen_fios]
process_employee(st, emp, map, nch, nd) ==
  LET fio     == strip(emp.fio)
      fio_key == fio_key_of(fio)
  IN  IF fio = STR_EMPTY THEN st
      ELSE IF fio_key \in st.seen_fios THEN
        [st EXCEPT !.errors = Append(@, KPIError(fio, "DUPLICATE"))]
      ELSE
        LET seen == [st EXCEPT !.seen_fios = @ \cup {fio_key}]
        IN  IF fio_key \notin DOMAIN map THEN
              [seen EXCEPT !.errors = Append(@, KPIError(fio, "NO_KPI_MAPPING"))]
            ELSE IF is_student(map[fio_key]) THEN
              [seen EXCEPT !.errors = Append(@, KPIError(fio, "STUDENT"))]
            ELSE IF calculation_raises(emp, map[fio_key], nch, nd) THEN
              [seen EXCEPT !.errors = calculation_error(@, fio)]
            ELSE
              LET kpi_info == map[fio_key]
                  result ==
                    IF is_day_schedule(kpi_info)
                      THEN _calculate_day_kpi(emp, kpi_info, nch)
                      ELSE _calculate_shift_kpi(emp, kpi_info, nd)
              IN  IF result # None
                    THEN [seen EXCEPT !.results = append_result(@, result[1])]
                    ELSE seen

NoLocals == [results |-> <<>>, errors |-> <<>>, seen_fios |-> {}]

RECURSIVE calculate_loop(_, _, _, _)
calculate_loop(emps, map, nch, nd) ==
  IF emps = <<>> THEN NoLocals
  ELSE process_employee(
         calculate_loop(SubSeq(emps, 1, Len(emps) - 1), map, nch, nd),
         emps[Len(emps)], map, nch, nd)

\* KPICalculator.calculate as a function of its arguments
calculate(emps, table, nch, nd) ==
  calculate_loop(emps, _build_kpi_map(table), nch, nd)

\* ------------------------------------------------- the legacy calculator
\* kpi_calculator.calculate_kpi_for_employees, on the same records.  Its
\* kpi_map holds the roster dicts themselves.
RECURSIVE legacy_kpi_map(_)
legacy_kpi_map(table) ==
  IF table = <<>> THEN EmptyMap
  ELSE LET prev == legacy_kpi_map(SubSeq(table, 1, Len(table) - 1))
           item == table[Len(table)]
           key  == lower(strip(item.fio))
       IN  IF key = STR_EMPTY THEN prev
           ELSE [k \in (DOMAIN prev) \cup {key} |->
                   IF k = key THEN item ELSE prev[k]]

\* schedule_type = str(..).strip().lower(), "day" unless "day" or "shift"
legacy_schedule_type(item) ==
  IF lower(strip(item.scheduleType)) \in {STR_DAY, STR_SHIFT}
    THEN lower(strip(item.scheduleType)) ELSE STR_DAY

\* fv of the day branch before the clamp, in thousandths: float() of the
\* total inside "try .. except Exception", else assigned - weekday letters
legacy_day_fv(emp, days_assigned) ==
  IF emp.worked_days_total # None /\ ~float_overflows(emp.worked_days_total)
    THEN emp.worked_days_total[1]
    ELSE (days_assigned - emp.letters_weekday) * Milli

\* the dict appended to results; daysWorked is not rounded
legacy_result(emp, item, schedule, days_assigned, worked, not_worked) ==
  LET work_percent == work_percent_of(worked, days_assigned)
  IN  [fio |-> strip(emp.fio),
       schedule_type |-> schedule,
       days_assigned |-> days_assigned,
       days_worked |-> worked,
       not_worked |-> not_worked,
       letters_weekday |-> emp.letters_weekday,
       letters_sat |-> emp.letters_sat,
       letters_sun |-> emp.letters_sun,
       letters_holiday |-> emp.letters_holiday,
       numbers_weekday |-> emp.numbers_weekday,
       numbers_sat |-> emp.numbers_sat,
       numbers_sun |-> emp.numbers_sun,
       numbers_holiday |-> emp.numbers_holiday,
       work_percent |-> round2(work_percent),
       kpi_sum |-> item.kpiSum,
       kpi_final |-> round2(kpi_final_of(work_percent, item.kpiSum))]

\* the body of "for emp in employees" on st = [results, errors, seen_fios]
legacy_process_employee(st, emp, map, nch, nd) ==
  LET fio     == strip(emp.fio)
      fio_key == lower(fio)
  IN  IF fio = STR_EMPTY THEN st
      ELSE IF fio_key \in st.seen_fios THEN
        [st EXCEPT !.errors = Append(@, KPIError(fio, "DUPLICATE"))]
      ELSE
        LET seen == [st EXCEPT !.seen_fios = @ \cup {fio_key}]
        IN  IF fio_key \notin DOMAIN map THEN
              [seen EXCEPT !.errors = Append(@, KPIError(fio, "NO_KPI_MAPPING"))]
            ELSE IF strip(map[fio_key].categoryCode) = STR_4 THEN
              [seen EXCEPT !.errors = Append(@, KPIError(fio, "STUDENT"))]
            ELSE IF legacy_schedule_type(map[fio_key]) = STR_DAY THEN
              IF nch <= 0 THEN
                [seen EXCEPT !.errors = Append(@, KPIError(fio, "INVALID_PLAN"))]
              ELSE
                LET fv == normalize_days(legacy_day_fv(emp, nch), nch)
                IN  [seen EXCEPT !.results =
                       Append(@, legacy_result(emp, map[fio_key], "day", nch,
                                               fv, Max(nch * Milli - fv, 0)))]
            ELSE
              IF nd <= 0 THEN
                [seen EXCEPT !.errors = Append(@, KPIError(fio, "INVALID_PLAN"))]
              ELSE
                LET effective == emp.letters_weekday + emp.letters_sat
                    work_rate == normalize_days((nd - effective) * Milli, nd)
                IN  [seen EXCEPT !.results =
                       Append(@, legacy_result(emp, map[fio_key], "shift", nd,
                                               work_rate, effective * Milli))]

RECURSIVE legacy_loop(_, _, _, _)
legacy_loop(emps, map, nch, nd) ==
  IF emps = <<>> THEN [results |-> <<>>, errors |-> <<>>, seen_fios |-> {}]
  ELSE legacy_process_employee(
         legacy_loop(SubSeq(emps, 1, Len(emps) - 1), map, nch, nd),
         emps[Len(emps)], map, nch, nd)

legacy_calculate_kpi_for_employees(emps, table, nch, nd) ==
  legacy_loop(emps, legacy_kpi_map(table), nch, nd)

\* ---------------------------------------------------------------- inputs
\* names as they appear in the timesheet
FIO_A       == <<"a">>
FIO_A_UPPER == <<" ", "A">>
FIO_B       == <<"b">>
FIO_BLANK   == <<" ">>

NoNumbers   == <<0, 0, 0, 0>>
SomeNumbers == <<3, 1, 2, 1>>

\* kpiSum values of the roster, in hundredths: 15000.00 and 250.50
KPI_SUM_15000 == 15000 * Cents
KPI_SUM_250_5 == (501 * Cents) \div 2
KpiSums == {KPI_SUM_15000, KPI_SUM_250_5}

\* attendance records of a batch run: the same name in two spellings and
\* with different counters, a second name, a record with a timesheet total
\* and numeric cells, and a record without a name
BatchEmployees ==
  {EmployeeData(FIO_A, 0, 0, 0, 0, NoNumbers, None),
   EmployeeData(FIO_A, 1, 0, 0, 0, NoNumbers, None),
   EmployeeData(FIO_A_UPPER, 0, 0, 0, 0, NoNumbers, None),
   EmployeeData(FIO_A_UPPER, 1, 1, 0, 1, SomeNumbers, Some(2125)),
   EmployeeData(FIO_B, 1, 0, 0, 0, NoNumbers, None),
   EmployeeData(FIO_BLANK, 0, 0, 0, 0, NoNumbers, None)}

\* roster dicts of a batch run: a day and a shift entry and a student for
\* one name, a day entry for the other
BatchRoster ==
  {RosterItem(<<"A">>, KPI_SUM_15000, STR_DAY, <<"1">>),
   RosterItem(<<"A">>, KPI_SUM_15000, STR_SHIFT, <<"1">>),
   RosterItem(<<"A">>, KPI_SUM_15000, STR_SHIFT, STR_4),
   RosterItem(<<"b", " ">>, KPI_SUM_250_5, STR_DAY, <<"1">>)}

\* schedule types as stored in the roster: exact, padded and mixed-case,
\* blank, and a value that is neither day nor shift
STR_SHIFT_PADDED == <<" ", "S", "h", "i", "f", "t", " ">>
STR_DAY_CAPITAL    == <<"D", "a", "y">>
STR_NIGHT        == <<"n", "i", "g", "h", "t">>
ScheduleTypes == {STR_DAY_CAPITAL, STR_SHIFT_PADDED, STR_EMPTY, STR_NIGHT}

\* workedDaysTotal as the parser delivers it (thousandths of a day)
WorkedTotals ==
  {None, Some(-1000), Some(0), Some(2125), Some(5000)}

\* one attendance record against one roster entry, everything varying
CalcEmployees ==
  {EmployeeData(FIO_A, lw, lsat, lsun, lhol, nums, wdt) :
     lw \in 0..MaxLetters, lsat \in 0..MaxLetters, lsun \in {0, 4},
     lhol \in {0, 1}, nums \in {NoNumbers, SomeNumbers},
     wdt \in WorkedTotals}

CalcRoster ==
  {RosterItem(<<"A">>, ks, st, cc) :
     ks \in KpiSums, st \in ScheduleTypes,
     cc \in {<<"1">>, STR_4}}

\* the worked examples of the specification
ExampleInputs ==
  { \* override: totalDaysWorked 20, dayNorm 22, lettersWeekday 5
    <<(<<EmployeeData(FIO_A, 5, 0, 0, 0, NoNumbers, Some(20000))>>),
      (<<RosterItem(<<"A">>, KPI_SUM_15000, STR_DAY, <<"1">>)>>), 22, 30>>,
    \* Sunday exemption: shiftNorm 30, lettersSunday 4
    <<(<<EmployeeData(FIO_A, 0, 0, 4, 0, NoNumbers, None)>>),
      (<<RosterItem(<<"A">>, KPI_SUM_15000, STR_SHIFT, <<"1">>)>>), 22, 30>>,
    \* two weekday letters, no total column, dayNorm 22, kpiSum 15000
    <<(<<EmployeeData(FIO_A, 2, 0, 0, 0, <<20, 4, 4, 0>>, None)>>),
      (<<RosterItem(<<"A">>, KPI_SUM_15000, STR_DAY, <<"1">>)>>), 22, 30>> }

SeqsUpTo(S, n) == UNION {[1..k -> S] : k \in 0..n}

\* the request handler rejects a request in which neither norm is positive
\* before calculate() is called
norms_configured(nd, ns) == ~(nd <= 0 /\ ns <= 0)

\* --------------------------------------------------------------- actions
\* the files as ensure_all_files creates them: columns and no row
EmptyFiles ==
  [kpi |-> <<>>, added |-> <<>>, deleted |-> <<>>, edited |-> <<>>,
   restored |-> <<>>]

NoOperation == [op |-> "", token |-> 0, used |-> 0, response |-> ""]

\* nobody has logged in and no roster operation has run
NoBackend ==
  /\ files = EmptyFiles
  /\ SESSIONS = <<>>
  /\ issued = <<>>
  /\ now = 0
  /\ last = NoOperation

\* nothing else of the backend has run
NoService ==
  /\ legacy = None
  /\ NoBackend

\* no request is being served
NoRequests ==
  /\ requests = <<>>
  /\ holidays_cache = {}
  /\ NoService

NoParser ==
  /\ NoRequests
  /\ df = <<>>
  /\ year = 0
  /\ month = 0
  /\ holiday_days = {}
  /\ parsed = None
  /\ day_num = 0
  /\ day_type = ""

\* calculate() is entered with its arguments; nothing is computed yet
InitLocals ==
  /\ kpi_map = EmptyMap
  /\ results = <<>>
  /\ errors = <<>>
  /\ seen_fios = {}
  /\ idx = 1
  /\ pc = "start"
  /\ employees_in = <<>>
  /\ previous = None
  /\ NoParser

Init ==
  /\ employees \in SeqsUpTo(BatchEmployees, MaxEmployees)
  /\ kpi_table \in SeqsUpTo(BatchRoster, MaxRoster)
  /\ nch_day \in {0, MaxNorm}
  /\ nd_shift \in {0, MaxNorm}
  /\ norms_configured(nch_day, nd_shift)
  /\ InitLocals

\* one record against one roster entry
InitCalc ==
  /\ \/ /\ \E e \in CalcEmployees : employees = <<e>>
        /\ \E r \in CalcRoster : kpi_table = <<r>>
        /\ nch_day \in 0..MaxNorm
        /\ nd_shift \in 0..MaxNorm
        /\ norms_configured(nch_day, nd_shift)
     \/ \E inp \in ExampleInputs :
          /\ employees = inp[1]
          /\ kpi_table = inp[2]
          /\ nch_day = inp[3]
          /\ nd_shift = inp[4]
  /\ InitLocals

\* variant: the names seen by an earlier call are kept
seen_fios_of_earlier_call == seen_fios

\* seen_fios = set(): a local of calculate(), new in every call
new_seen_fios == {}

\* kpi_map = self._build_kpi_map(kpi_table); results, errors, seen_fios empty
BuildKpiMap ==
  /\ pc = "start"
  /\ kpi_map' = _build_kpi_map(kpi_table)
  /\ results' = <<>>
  /\ errors' = <<>>
  /\ seen_fios' = new_seen_fios
  /\ idx' = 1
  /\ pc' = "loop"
  /\ UNCHANGED <<employees, kpi_table, nch_day, nd_shift>>
  /\ UNCHANGED outerVars

\* one iteration of "for emp in employees"
ProcessEmployee ==
  /\ pc = "loop"
  /\ idx <= Len(employees)
  /\ idx' = idx + 1
  /\ LET st == process_employee(
                 [results |-> results, errors |-> errors,
                  seen_fios |-> seen_fios],
                 employees[idx], kpi_map, nch_day, nd_shift)
     IN  /\ results' = st.results
         /\ errors' = st.errors
         /\ seen_fios' = st.seen_fios
  /\ UNCHANGED <<employees, kpi_table, nch_day, nd_shift, kpi_map, pc>>
  /\ UNCHANGED outerVars

\* return results, errors
Return ==
  /\ pc = "loop"
  /\ idx > Len(employees)
  /\ pc' = "done"
  /\ UNCHANGED <<employees, kpi_table, nch_day, nd_shift, kpi_map, results,
                 errors, seen_fios, idx>>
  /\ UNCHANGED outerVars

Next == BuildKpiMap \/ ProcessEmployee \/ Return

Spec == Init /\ [][Next]_vars

SpecCalc == InitCalc /\ [][Next]_vars

\* ------------------------------------------------------ a second call
\* calculate() is called again on the same calculator with the same
\* arguments; what the first call returned is kept for comparison.  The
\* locals of the first call are whatever it left.
CalculateAgain ==
  /\ pc = "done"
  /\ previous = None
  /\ previous' = Some([results |-> results, errors |-> errors])
  /\ pc' = "start"
  /\ UNCHANGED <<employees, kpi_table, nch_day, nd_shift, kpi_map, results,
                 errors, seen_fios, idx, employees_in>>
  /\ UNCHANGED parserVars
  /\ UNCHANGED requestVars
  /\ UNCHANGED serviceVars

NextTwice == Next \/ CalculateAgain

SpecTwice == Init /\ [][NextTwice]_vars

\* the legacy calculator is run on the arguments of the finished call
CalculateLegacy ==
  /\ pc = "done"
  /\ legacy = None
  /\ legacy' =
       LET out == legacy_calculate_kpi_for_employees(employees, kpi_table,
                                                     nch_day, nd_shift)
       IN  Some([results |-> out.results, errors |-> out.errors])
  /\ UNCHANGED calcVars
  /\ UNCHANGED parserVars
  /\ UNCHANGED requestVars
  /\ UNCHANGED backendVars

NextLegacy == Next \/ CalculateLegacy

\* batches, and single records against every kind of roster entry
InitLegacy == Init \/ InitCalc

SpecLegacy == InitLegacy /\ [][NextLegacy]_vars

\* ------------------------------------ calculate_kpi_for_employees (wrapper)
\* A counter of an attendance dict is NoValue (None, or the key is absent),
\* IntValue(n), or FloatValue(n, d): the float n / d, where d = 0 stands for
\* inf (n # 0) and nan (n = 0).
NoValue == <<>>
IntValue(n) == <<n>>
FloatValue(n, d) == <<n, d>>
FLOAT_INF == FloatValue(1, 0)

\* int(v or 0) raises: ValueError for nan, OverflowError for inf
int_or_0_raises(v) == Len(v) = 2 /\ v[2] = 0

\* int(v or 0): None and 0 give 0, a float is truncated towards zero
int_or_0(v) ==
  IF Len(v) = 0 THEN 0
  ELSE IF Len(v) = 1 THEN v[1]
  ELSE IF v[1] >= 0 THEN v[1] \div v[2] ELSE -((-v[1]) \div v[2])

\* one dict of the wrapper's employees argument (the keys of the parser)
EmployeeDict(fio, lw, lsat, lsun, lhol, wdt) ==
  [fio |-> fio,
   letters_weekday |-> lw, letters_sat |-> lsat,
   letters_sun |-> lsun, letters_holiday |-> lhol,
   numbers_weekday |-> IntValue(0), numbers_sat |-> NoValue,
   numbers_sun |-> IntValue(0), numbers_holiday |-> IntValue(0),
   workedDaysTotal |-> wdt]

CounterKeys(d) ==
  {d.letters_weekday, d.letters_sat, d.letters_sun, d.letters_holiday,
   d.numbers_weekday, d.numbers_sat, d.numbers_sun, d.numbers_holiday}

\* EmployeeData(fio=str(..).strip(), letters_weekday=int(.. or 0), ..) raises
employee_data_raises(d) == \E v \in CounterKeys(d) : int_or_0_raises(v)

\* EmployeeData(...) of one dict; workedDaysTotal is passed through
employee_data_of(d) ==
  EmployeeData(strip(d.fio),
               int_or_0(d.letters_weekday), int_or_0(d.letters_sat),
               int_or_0(d.letters_sun), int_or_0(d.letters_holiday),
               <<int_or_0(d.numbers_weekday), int_or_0(d.numbers_sat),
                 int_or_0(d.numbers_sun), int_or_0(d.numbers_holiday)>>,
               d.workedDaysTotal)

TEN_POW_400 == BigInt(400)

\* dicts handed to the wrapper: sound records of two names, a record whose
\* weekday counter is inf, records whose total is the int 10**400, a record
\* with a fractional counter and absent keys
WrapperDicts ==
  {EmployeeDict(FIO_A, IntValue(1), IntValue(0), IntValue(0), IntValue(0), None),
   EmployeeDict(FIO_A_UPPER, IntValue(0), NoValue, NoValue, NoValue, Some(2125)),
   EmployeeDict(FIO_A, IntValue(1), IntValue(0), IntValue(0), IntValue(0),
                TEN_POW_400),
   EmployeeDict(FIO_B, FLOAT_INF, IntValue(0), IntValue(0), IntValue(0), None),
   EmployeeDict(FIO_B, FloatValue(3, 2), IntValue(1), IntValue(0), IntValue(0),
                None),
   EmployeeDict(FIO_B, IntValue(0), IntValue(0), IntValue(0), IntValue(0),
                TEN_POW_400)}

WrapperRoster ==
  {RosterItem(<<"A">>, KPI_SUM_15000, STR_DAY, <<"1">>),
   RosterItem(<<"b">>, KPI_SUM_250_5, STR_DAY, <<"1">>),
   RosterItem(<<"b">>, KPI_SUM_250_5, STR_SHIFT, <<"1">>)}

InitWrapper ==
  /\ employees_in \in SeqsUpTo(WrapperDicts, MaxEmployees)
  /\ kpi_table \in SeqsUpTo(WrapperRoster, MaxRoster)
  /\ nch_day \in {0, MaxNorm}
  /\ nd_shift \in {0, MaxNorm}
  /\ norms_configured(nch_day, nd_shift)
  /\ employees = <<>>
  /\ kpi_map = EmptyMap
  /\ results = <<>>
  /\ errors = <<>>
  /\ seen_fios = {}
  /\ idx = 1
  /\ pc = "convert"
  /\ previous = None
  /\ NoParser

\* the list comprehension that builds employee_data, and KPICalculator(year,
\* month), whose reading of the calendar calculate() never uses.  A raise of
\* one EmployeeData(...) leaves the wrapper: nothing is returned.
ConvertEmployees ==
  /\ pc = "convert"
  /\ IF \E i \in DOMAIN employees_in : employee_data_raises(employees_in[i])
       THEN /\ pc' = "raised"
            /\ UNCHANGED employees
       ELSE /\ employees' = [i \in DOMAIN employees_in |->
                               employee_data_of(employees_in[i])]
            /\ pc' = "start"
  /\ UNCHANGED <<kpi_table, nch_day, nd_shift, kpi_map, results, errors,
                 seen_fios, idx>>
  /\ UNCHANGED outerVars

NextWrapper == ConvertEmployees \/ BuildKpiMap \/ ProcessEmployee \/ Return

SpecWrapper == InitWrapper /\ [][NextWrapper]_vars

\* ====================================================== timesheet parser
\* ------------------------------------------------ datetime.date(y, m, d)
days_in_month(y, m) ==
  IF m = 2 /\ y % 4 = 0 /\ (y % 100 # 0 \/ y % 400 = 0) THEN 29
  ELSE <<31, 28, 31, 30, 31, 30, 31, 31, 30, 31, 30, 31>>[m]

\* date(y, m, d) does not raise ValueError
date_is_valid(y, m, d) ==
  /\ 1 <= y /\ y <= 9999
  /\ 1 <= m /\ m <= 12
  /\ 1 <= d /\ d <= days_in_month(y, m)

\* date(y, m, d).weekday(): (ordinal + 6) % 7, 0 = Monday .. 6 = Sunday
RECURSIVE days_before_month(_, _)
days_before_month(y, m) ==
  IF m = 1 THEN 0
  ELSE days_before_month(y, m - 1) + days_in_month(y, m - 1)

weekday(y, m, d) ==
  LET p == y - 1
      days_before_year == p * 365 + p \div 4 - p \div 100 + p \div 400
  IN  (days_before_year + days_before_month(y, m) + d + 6) % 7

\* ----------------------------------------------------------- _classify_day
\* variant: the ValueError of an impossible date is not caught
classify_invalid_date_raises == "ValueError"

\* except ValueError: return "weekday"
classify_invalid_date == "weekday"

\* variant: the calendar weekend is looked at before the holidays
_classify_day_weekend_first(y, m, d, holidays) ==
  IF date_is_valid(y, m, d) /\ weekday(y, m, d) = 5 THEN "sat"
  ELSE IF date_is_valid(y, m, d) /\ weekday(y, m, d) = 6 THEN "sun"
  ELSE IF d \in holidays THEN "holiday"
  ELSE "weekday"

_classify_day(y, m, d, holidays) ==
  IF d \in holidays THEN "holiday"
  ELSE IF ~date_is_valid(y, m, d) THEN classify_invalid_date
  ELSE IF weekday(y, m, d) = 5 THEN "sat"
  ELSE IF weekday(y, m, d) = 6 THEN "sun"
  ELSE "weekday"

\* ------------------------------------------------------ cells and texts
\* A cell of the grid is the text str(val) of its value; the empty text
\* stands for a cell without value (None, NaN).  Letters outside ASCII are
\* written by stand-ins: "V" and "v" for the Cyrillic capital and small Ve,
\* and each literal of the code is one symbol of its own.
CYR_VE_CAPITAL == "V"
CYR_VE_SMALL   == "v"
KZ_HEADER      == <<"ATY-zhoni (tolygymen)">>
SIMPLE_HEADER  == <<"Sotrudnik">>
TOTAL_MARKER   == <<"otelgen kunder zhiyntygy">>
STR_NAN        == <<"n", "a", "n">>

Upper(c) ==
  CASE c = CYR_VE_SMALL -> CYR_VE_CAPITAL
    [] c = "x" -> "X"
    [] OTHER -> c

\* str.upper()
upper(s) == [i \in 1..Len(s) |-> Upper(s[i])]

Digits == <<"0", "1", "2", "3", "4", "5", "6", "7", "8", "9">>
IsDigit(c) == \E i \in DOMAIN Digits : Digits[i] = c
DigitValue(c) == (CHOOSE i \in DOMAIN Digits : Digits[i] = c) - 1

\* str.isdigit()
isdigit(s) == s # <<>> /\ \A i \in DOMAIN s : IsDigit(s[i])

\* int(s) of a string of digits
RECURSIVE int_of(_)
int_of(s) ==
  IF s = <<>> THEN 0
  ELSE 10 * int_of(SubSeq(s, 1, Len(s) - 1)) + DigitValue(s[Len(s)])

\* float(s) does not raise, for texts made of a sign, digits and one point
\* (the texts the grids of this model hold)
is_float_literal(s) ==
  LET body == IF s # <<>> /\ s[1] \in {"-", "+"} THEN Tail(s) ELSE s
      points == {i \in DOMAIN body : body[i] = "."}
  IN  /\ Cardinality(points) <= 1
      /\ \A i \in (DOMAIN body) \ points : IsDigit(body[i])
      /\ \E i \in DOMAIN body : IsDigit(body[i])

\* float(s) of such a text, in thousandths (up to three decimals)
float_of(s) ==
  LET neg == s[1] = "-"
      body == IF s[1] \in {"-", "+"} THEN Tail(s) ELSE s
      points == {i \in DOMAIN body : body[i] = "."}
      cut == IF points = {} THEN Len(body) + 1 ELSE CHOOSE i \in points : TRUE
      whole == int_of(SubSeq(body, 1, cut - 1))
      frac3 == SubSeq(SubSeq(body, cut + 1, Len(body)) \o <<"0", "0", "0">>,
                      1, 3)
      abs == whole * Milli + int_of(frac3)
  IN  IF neg THEN -abs ELSE abs

\* _try_float: None for a cell without value, for an empty text and for a
\* text float() rejects; a comma counts as the decimal point
_try_float(val) ==
  LET s == [i \in DOMAIN strip(val) |->
              IF strip(val)[i] = "," THEN "." ELSE strip(val)[i]]
  IN  IF val = <<>> \/ s = <<>> THEN None
      ELSE IF is_float_literal(s) THEN Some(float_of(s))
      ELSE None

\* ------------------------------------------------- counting the day cells
\* variant: the day-off mark is recognised in its capital form only
is_day_off_mark_capital_only(val_str) == val_str = <<CYR_VE_CAPITAL>>

\* val_str.upper() == "В"
is_day_off_mark(val_str) == upper(val_str) = <<CYR_VE_CAPITAL>>

\* the cell is passed over: no value, empty after strip(), "-", day off
is_skipped(val) ==
  \/ val = <<>>
  \/ strip(val) = <<>>
  \/ strip(val) = <<"-">>
  \/ is_day_off_mark(strip(val))

NoCounters ==
  [letters_weekday |-> 0, letters_sat |-> 0, letters_sun |-> 0,
   letters_holiday |-> 0, numbers_weekday |-> 0, numbers_sat |-> 0,
   numbers_sun |-> 0, numbers_holiday |-> 0]

\* variant: a counted cell is a letter, whatever its text
counter_name_letters_only(is_number, day_kind) ==
  IF day_kind = "weekday" THEN "letters_weekday"
  ELSE IF day_kind = "sat" THEN "letters_sat"
  ELSE IF day_kind = "sun" THEN "letters_sun"
  ELSE "letters_holiday"

\* the counter the if/elif chain increments
counter_name(is_number, day_kind) ==
  IF is_number
    THEN IF day_kind = "weekday" THEN "numbers_weekday"
         ELSE IF day_kind = "sat" THEN "numbers_sat"
         ELSE IF day_kind = "sun" THEN "numbers_sun"
         ELSE "numbers_holiday"
    ELSE IF day_kind = "weekday" THEN "letters_weekday"
         ELSE IF day_kind = "sat" THEN "letters_sat"
         ELSE IF day_kind = "sun" THEN "letters_sun"
         ELSE "letters_holiday"

\* "for col, day_num in day_cols" over one row; day_cols is a list of
\* <<column, day number>>
RECURSIVE count_cells(_, _, _, _, _)
count_cells(row, day_cols, y, m, holidays) ==
  IF day_cols = <<>> THEN NoCounters
  ELSE LET before == count_cells(row, SubSeq(day_cols, 1, Len(day_cols) - 1),
                                 y, m, holidays)
           val == row[day_cols[Len(day_cols)][1]]
           kind == _classify_day(y, m, day_cols[Len(day_cols)][2], holidays)
           is_number == _try_float(strip(val)) # None
       IN  IF is_skipped(val) THEN before
           ELSE [before EXCEPT ![counter_name(is_number, kind)] = @ + 1]

\* the dict appended for one employee row
attendance_dict(fio, counters, total) ==
  [fio |-> fio,
   letters_weekday |-> IntValue(counters.letters_weekday),
   letters_sat |-> IntValue(counters.letters_sat),
   letters_sun |-> IntValue(counters.letters_sun),
   letters_holiday |-> IntValue(counters.letters_holiday),
   numbers_weekday |-> IntValue(counters.numbers_weekday),
   numbers_sat |-> IntValue(counters.numbers_sat),
   numbers_sun |-> IntValue(counters.numbers_sun),
   numbers_holiday |-> IntValue(counters.numbers_holiday),
   workedDaysTotal |-> total]

\* ------------------------------------------------------- the two layouts
\* what parse_timesheet_from_excel gives: the list it returns, or the
\* ValueError it raises (error is then not empty, and nothing is returned)
parse_returns(layout, emps) ==
  Some([layout |-> layout, employees |-> emps, error |-> ""])
parse_raises(layout, error) ==
  Some([layout |-> layout, employees |-> <<>>, error |-> error])

AscendingSeq(lo, hi) == [i \in 1..(hi - lo + 1) |-> lo + i - 1]

\* any(str(v).strip() == "АТЫ-жөні (толығымен)" for v in row.values)
row_has_kz_header(row) == \E c \in DOMAIN row : strip(row[c]) = KZ_HEADER

_has_kz_header(grid) == \E r \in DOMAIN grid : row_has_kz_header(grid[r])

\* "Сотрудник" in df2.columns, df2 being the grid read with its first row
\* as the header
has_simple_header(grid) ==
  grid # <<>> /\ \E c \in DOMAIN grid[1] : grid[1][c] = SIMPLE_HEADER

\* variant: the flat layout is looked for first
detect_layout_simple_first(grid) ==
  IF has_simple_header(grid) THEN "B"
  ELSE IF _has_kz_header(grid) THEN "A"
  ELSE "none"

\* the if chain of parse_timesheet_from_excel
detect_layout(grid) ==
  IF _has_kz_header(grid) THEN "A"
  ELSE IF has_simple_header(grid) THEN "B"
  ELSE "none"

\* _find_cell: the column of the first cell, row by row, whose text is the
\* marker in any letter case; None when there is none
_find_cell(grid, text, search_rows) ==
  LET target == lower(strip(text))
      hit(r, c) == lower(strip(grid[r][c])) = target
      rows == {r \in search_rows \cap DOMAIN grid :
                 \E c \in DOMAIN grid[r] : hit(r, c)}
  IN  IF rows = {} THEN None
      ELSE LET r == CHOOSE q \in rows : \A o \in rows : q <= o
               c == CHOOSE q \in DOMAIN grid[r] :
                      hit(r, q) /\ \A o \in 1..(q - 1) : ~hit(r, o)
           IN  Some(c)

_parse_kz_template(grid, y, m, holidays) ==
  LET header_row_idx ==
        CHOOSE r \in DOMAIN grid :
          /\ row_has_kz_header(grid[r])
          /\ \A o \in 1..(r - 1) : ~row_has_kz_header(grid[o])
      fio_col ==
        CHOOSE c \in DOMAIN grid[header_row_idx] :
          /\ strip(grid[header_row_idx][c]) = KZ_HEADER
          /\ \A o \in 1..(c - 1) : strip(grid[header_row_idx][o]) # KZ_HEADER
      day_header_idx == header_row_idx + 1
  IN  IF day_header_idx \notin DOMAIN grid
        THEN parse_raises("A", "NO_DAY_ROW")
      ELSE
        LET day_header == grid[day_header_idx]
            cols == SelectSeq(AscendingSeq(1, Len(day_header)),
                              LAMBDA c : isdigit(strip(day_header[c])))
            day_cols == [i \in DOMAIN cols |->
                           <<cols[i], int_of(strip(day_header[cols[i]]))>>]
            total_days_col ==
              _find_cell(grid, TOTAL_MARKER,
                         Max(1, header_row_idx - 2)..(header_row_idx + 4))
            named(r) ==
              /\ grid[r][fio_col] # <<>>
              /\ strip(grid[r][fio_col]) # <<>>
              /\ strip(grid[r][fio_col]) # KZ_HEADER
            rows == SelectSeq(AscendingSeq(day_header_idx + 1, Len(grid)),
                              named)
        IN  parse_returns("A",
              [j \in DOMAIN rows |->
                 attendance_dict(
                   strip(grid[rows[j]][fio_col]),
                   count_cells(grid[rows[j]], day_cols, y, m, holidays),
                   IF total_days_col = None THEN None
                   ELSE _try_float(grid[rows[j]][total_days_col[1]]))])

\* the grid read with its first row as the header; the labels of the header
\* are strings, and a label that repeats an earlier one is read with a
\* suffix (".1"), so it is no day column.  str() of a name cell without value
\* is "nan".
_parse_simple_template(grid, y, m, holidays) ==
  LET header == grid[1]
      repeated(c) == \E o \in 1..(c - 1) : header[o] = header[c]
      cols == SelectSeq(AscendingSeq(1, Len(header)),
                        LAMBDA c : /\ Len(header[c]) = 2
                                   /\ isdigit(header[c])
                                   /\ ~repeated(c))
      day_cols == [i \in DOMAIN cols |-> <<cols[i], int_of(header[cols[i]])>>]
      fio_col == CHOOSE c \in DOMAIN header :
                   /\ header[c] = SIMPLE_HEADER
                   /\ \A o \in 1..(c - 1) : header[o] # SIMPLE_HEADER
      fio_of(r) == strip(IF grid[r][fio_col] = <<>> THEN STR_NAN
                         ELSE grid[r][fio_col])
      rows == SelectSeq(AscendingSeq(2, Len(grid)),
                        LAMBDA r : fio_of(r) # <<>>)
  IN  parse_returns("B",
        [j \in DOMAIN rows |->
           attendance_dict(fio_of(rows[j]),
                           count_cells(grid[rows[j]], day_cols, y, m, holidays),
                           None)])

\* parse_timesheet_from_excel, on the grid and the normalised holidays
parse_timesheet_from_excel(grid, y, m, holidays) ==
  IF detect_layout(grid) = "A" THEN _parse_kz_template(grid, y, m, holidays)
  ELSE IF detect_layout(grid) = "B"
    THEN _parse_simple_template(grid, y, m, holidays)
  ELSE parse_raises("none", "UNKNOWN_FORMAT")

\* --------------------------------------------- the classifier on its own
MaxDayLabel == 31   \* day numbers range over 1..MaxDayLabel
MaxMonth    == 12   \* months range over 1..MaxMonth

\* a leap year, a common year, and the two kinds of century year
Years == {2000, 2024, 2025, 2100}

\* no holiday, a few days, every day of the month
HolidaySets == {{}, {6, 7, 8, 31}, 1..MaxDayLabel}

\* the calculator is not running
NoCalculator ==
  /\ employees = <<>>
  /\ kpi_table = <<>>
  /\ nch_day = 0
  /\ nd_shift = 0
  /\ kpi_map = EmptyMap
  /\ results = <<>>
  /\ errors = <<>>
  /\ seen_fios = {}
  /\ idx = 1
  /\ pc = "idle"
  /\ employees_in = <<>>
  /\ previous = None

InitClassify ==
  /\ year \in Years
  /\ month \in 1..MaxMonth
  /\ day_num \in 1..MaxDayLabel
  /\ holiday_days \in HolidaySets
  /\ day_type = ""
  /\ df = <<>>
  /\ parsed = None
  /\ NoCalculator
  /\ NoRequests

\* day_type = _classify_day(year, month, day_num, holiday_days)
ClassifyDay ==
  /\ day_type = ""
  /\ day_type' = _classify_day(year, month, day_num, holiday_days)
  /\ UNCHANGED <<df, year, month, holiday_days, parsed, day_num>>
  /\ UNCHANGED calcVars
  /\ UNCHANGED requestVars
  /\ UNCHANGED serviceVars

NextClassify == ClassifyDay

SpecClassify == InitClassify /\ [][NextClassify]_vars

\* ------------------------------------------------- the parser on its own
\* day labels: June 2025 has Monday 2, Saturday 7, Sunday 8 and no day 31;
\* labels that are digits and no day of any month
DayLabels == {<<"2">>, <<"0", "2">>, <<"0", "7">>, <<"0", "8">>, <<"3", "1">>,
              <<"x">>, <<"0">>, <<"0", "0">>, <<"3", "2">>, <<"4", "5">>}

\* day cells: no value, blank, dash, day-off mark in both cases and padded,
\* numbers with point and comma, a letter
CellTexts == {<<>>, <<" ">>, <<"-">>, <<CYR_VE_CAPITAL>>, <<CYR_VE_SMALL>>,
              <<" ", CYR_VE_CAPITAL, " ">>, <<"8">>, <<"1", ",", "5">>,
              <<"x">>}

NameCells == {FIO_A, FIO_BLANK, <<>>}

ParseHolidays == {{}, {2, 7}}

\* grids of three columns around one employee row <<name, c1, c2>> and two
\* day labels l1, l2
Grids(name, l1, l2, c1, c2) ==
  {\* the first layout
   <<<<KZ_HEADER, <<>>, <<>>>>, <<<<>>, l1, l2>>, <<name, c1, c2>>>>,
   \* the first layout with a column of totals
   <<<<KZ_HEADER, <<>>, TOTAL_MARKER>>, <<<<>>, l1, <<>>>>, <<name, c1, c2>>>>,
   \* both signals: "Employee" in the first row, the name header below
   <<<<SIMPLE_HEADER, l1, l2>>, <<<<" ">> \o KZ_HEADER, <<>>, <<>>>>,
     <<<<>>, l1, l2>>, <<name, c1, c2>>>>,
   \* the name header in the last row
   <<<<name, c1, c2>>, <<KZ_HEADER, l1, l2>>>>,
   \* both signals, the name header in the last row
   <<<<SIMPLE_HEADER, l1, l2>>, <<name, c1, c2>>, <<KZ_HEADER, c1, c2>>>>,
   \* the second layout
   <<<<SIMPLE_HEADER, l1, l2>>, <<name, c1, c2>>>>,
   \* "Employee" below the first row
   <<<<name, l1, l2>>, <<SIMPLE_HEADER, c1, c2>>>>,
   \* no signal
   <<<<name, l1, l2>>, <<name, c1, c2>>>>,
   \* no row
   <<>>}

\* grids of MaxRows rows in the first layout: the name header in row h, the
\* day labels below it, the marker of the totals in row m of the third
\* column, blank rows, and one employee row at the end with a total of 20
MaxRows == 9

BLANK_ROW == <<<<>>, <<>>, <<>>>>

TallGrid(h, m) ==
  [r \in 1..MaxRows |->
     LET third == IF r = m THEN TOTAL_MARKER ELSE <<>>
     IN  IF r = MaxRows THEN <<FIO_A, <<"8">>, <<"2", "0">>>>
         ELSE IF r = h THEN <<KZ_HEADER, <<>>, third>>
         ELSE IF r = h + 1 THEN <<<<>>, <<"2">>, third>>
         ELSE <<<<>>, <<>>, third>>]

TallGrids ==
  {TallGrid(h, m) : h \in 1..(MaxRows - 2), m \in 1..(MaxRows - 1)}

InitParse ==
  /\ \/ \E name \in NameCells : \E l1 \in DayLabels : \E l2 \in DayLabels :
          \E c1 \in CellTexts : \E c2 \in CellTexts :
            df \in Grids(name, l1, l2, c1, c2)
     \/ df \in TallGrids
  /\ year = 2025
  /\ month = 6
  /\ holiday_days \in ParseHolidays
  /\ parsed = None
  /\ day_num = 0
  /\ day_type = ""
  /\ NoCalculator
  /\ NoRequests

\* parsed = parse_timesheet_from_excel(file, year, month, holidays)
ParseTimesheet ==
  /\ parsed = None
  /\ parsed' = parse_timesheet_from_excel(df, year, month, holiday_days)
  /\ UNCHANGED <<df, year, month, holiday_days, day_num, day_type>>
  /\ UNCHANGED calcVars
  /\ UNCHANGED requestVars
  /\ UNCHANGED serviceVars

NextParse == ParseTimesheet

SpecParse == InitParse /\ [][NextParse]_vars

\* ------------------------------------------- from the grid to the results
\* str() of a day number, and of the same number read as a float
DayText(d) ==
  IF d < 10 THEN <<Digits[d + 1]>>
  ELSE <<Digits[(d \div 10) + 1], Digits[(d % 10) + 1]>>

FloatText(d) == DayText(d) \o <<".", "0">>

\* a grid of the first layout without column of totals, for a month of
\* MonthDays days: the header row, the row of the day labels 1..MonthDays
\* and one employee row with a letter on the days of
\* letter_days and a number on the other days.  A column that holds nothing
\* but numbers is read as floats (as_float), its label included.
MonthGrid(MonthDays, name, letter_days, letter, hours, as_float) ==
  LET label(d) == IF as_float /\ d \notin letter_days THEN FloatText(d)
                  ELSE DayText(d)
      cell(d) == IF d \in letter_days THEN letter
                 ELSE IF as_float THEN FloatText(hours) ELSE DayText(hours)
  IN  << <<KZ_HEADER>> \o [d \in 1..MonthDays |-> <<>>],
         << <<>> >> \o [d \in 1..MonthDays |-> label(d)],
         <<name>> \o [d \in 1..MonthDays |-> cell(d)] >>

\* Monday to Friday, by the day of the week of the first of the month
\* (June 2025 begins on a Sunday, September 2025 on a Monday)
FirstWeekday == [m \in {6, 9} |-> IF m = 6 THEN 6 ELSE 0]
IsWorkingDay(m, d) == (FirstWeekday[m] + d - 1) % 7 < 5

InitEndToEnd ==
  /\ year = 2025
  /\ month \in DOMAIN FirstWeekday
  /\ holiday_days \in {{}, {7, 14}}
  /\ \E d1 \in 1..days_in_month(year, month) :
     \E d2 \in (d1 + 1)..days_in_month(year, month) :
       \E as_float \in BOOLEAN :
         /\ IsWorkingDay(month, d1)
         /\ IsWorkingDay(month, d2)
         /\ {d1, d2} \cap holiday_days = {}
         /\ df = MonthGrid(days_in_month(year, month), FIO_A_UPPER, {d1, d2},
                        <<"x">>, 8, as_float)
  /\ parsed = None
  /\ day_num = 0
  /\ day_type = ""
  /\ employees = <<>>
  /\ kpi_table = <<RosterItem(<<"A">>, KPI_SUM_15000, STR_DAY, <<"1">>)>>
  /\ nch_day = 22
  /\ nd_shift \in {0, 15}
  /\ kpi_map = EmptyMap
  /\ results = <<>>
  /\ errors = <<>>
  /\ seen_fios = {}
  /\ idx = 1
  /\ pc = "idle"
  /\ employees_in = <<>>
  /\ previous = None
  /\ NoRequests

\* calculate_kpi_for_employees(employees=employees, ...) with the list the
\* parser returned
CalculateParsed ==
  /\ pc = "idle"
  /\ parsed # None
  /\ parsed[1].error = ""
  /\ employees_in' = parsed[1].employees
  /\ pc' = "convert"
  /\ UNCHANGED <<employees, kpi_table, nch_day, nd_shift, kpi_map, results,
                 errors, seen_fios, idx, previous>>
  /\ UNCHANGED parserVars
  /\ UNCHANGED requestVars
  /\ UNCHANGED serviceVars

NextEndToEnd ==
  \/ ParseTimesheet
  \/ CalculateParsed
  \/ ConvertEmployees
  \/ BuildKpiMap
  \/ ProcessEmployee
  \/ Return

SpecEndToEnd == InitEndToEnd /\ [][NextEndToEnd]_vars

\* ================================================== calculation requests
\* ------------------------------------------------------ the form values
MIN_YEAR == 2000
MAX_YEAR == 2100

\* validate_year_month raises ValueError
validate_year_month_raises(y, m) ==
  \/ ~(MIN_YEAR <= y /\ y <= MAX_YEAR)
  \/ ~(1 <= m /\ m <= 12)

\* an entry of the holidays list: a day number, or an ISO date string
DayEntry(d) == <<d>>
IsoEntry(y, m, d) == <<y, m, d>>

\* _normalize_holidays: the day numbers 1..31 given as numbers, and the days
\* of the ISO dates of this year and month
_normalize_holidays(holidays, y, m) ==
  {d \in 1..31 : \E i \in DOMAIN holidays :
                   holidays[i] = DayEntry(d) \/ holidays[i] = IsoEntry(y, m, d)}

\* the date _calc_core adds to the calendar for one entry; None when building
\* the date raises (the exception is caught and logged)
holiday_date(holiday, y, m) ==
  LET ymd == IF Len(holiday) = 3 THEN holiday ELSE <<y, m, holiday[1]>>
  IN  IF date_is_valid(ymd[1], ymd[2], ymd[3]) THEN Some(ymd) ELSE None

\* what _calc_core returns, as (results, errors, error_message)
\* variant: an error message together with empty lists
error_response_with_lists(message) ==
  [results |-> Some(<<>>), errors |-> Some(<<>>), error |-> message]

\* return None, None, message
error_response(message) ==
  [results |-> None, errors |-> None, error |-> message]

\* return results, errors, None
ok_response(rs, es) ==
  [results |-> Some(rs), errors |-> Some(es), error |-> ""]

\* the checks of _calc_core before the holidays are read: the message of
\* the first one that fails, "" when all pass.  nchDay and ndShift are None
\* when int() rejects their text.
validation_error(form) ==
  IF ~form.authenticated THEN "AUTH_REQUIRED"
  ELSE IF form.timesheet = None THEN "NO_FILE"
  ELSE IF ~form.file_accepted THEN "BAD_FILE"
  ELSE IF form.nchDay = None \/ form.ndShift = None THEN "NORMS_NOT_INTEGERS"
  ELSE IF form.nchDay[1] <= 0 /\ form.ndShift[1] <= 0 THEN "NORMS_NOT_SET"
  ELSE IF validate_year_month_raises(form.year, form.month)
    THEN "BAD_YEAR_MONTH"
  ELSE ""

\* load_kpi_table(): the stored roster, not changed by a calculation
StoredRoster == <<RosterItem(<<"A">>, KPI_SUM_15000, STR_DAY, <<"1">>)>>

\* parse_timesheet_from_excel(timesheet_file, year, month, holidays)
parsed_of(form) ==
  parse_timesheet_from_excel(
    form.timesheet[1], form.year, form.month,
    _normalize_holidays(form.holidays, form.year, form.month))[1]

\* ----------------------------------------------------------- the threads
Requests == {1, 2}

\* one request: its form, the position of its thread, the index of the next
\* holiday to add, the EmployeeData list, the iterator over the holiday set
\* (the size of the set when the iterator was made, the elements not yet
\* visited) and what it returned
NewRequest(form) ==
  [form |-> form, pc |-> "received", k |-> 1, employees |-> <<>>,
   si_used |-> 0, left |-> {}, response |-> None]

Responded(req, response) ==
  [req EXCEPT !.pc = "responded", !.response = Some(response)]

\* a grid of the first layout with the days 2 and 9 (Mondays of June 2025)
\* and one employee row; an unrecognised grid; a grid whose name header is
\* in the last row
GRID_OK == <<<<KZ_HEADER, <<>>, <<>>>>, <<<<>>, <<"2">>, <<"9">>>>,
             <<FIO_A, <<"8">>, <<"x">>>>>>
GRID_UNKNOWN == <<<<FIO_A, <<"2">>, <<"9">>>>, <<FIO_A, <<"8">>, <<"x">>>>>>
GRID_HEADER_LAST == <<<<FIO_A, <<"8">>, <<"x">>>>,
                      <<KZ_HEADER, <<"2">>, <<"9">>>>>>

BaseForm ==
  [authenticated |-> TRUE, timesheet |-> Some(GRID_OK), file_accepted |-> TRUE,
   nchDay |-> Some(22), ndShift |-> Some(0), year |-> 2025, month |-> 6,
   holidays |-> <<>>]

Forms ==
  {BaseForm,
   [BaseForm EXCEPT !.holidays = <<DayEntry(9)>>],
   [BaseForm EXCEPT !.holidays = <<IsoEntry(2025, 6, 2), DayEntry(31)>>],
   [BaseForm EXCEPT !.timesheet = Some(GRID_UNKNOWN)],
   [BaseForm EXCEPT !.timesheet = Some(GRID_HEADER_LAST)],
   [BaseForm EXCEPT !.nchDay = Some(0)],
   [BaseForm EXCEPT !.nchDay = Some(0), !.ndShift = Some(15)],
   [BaseForm EXCEPT !.nchDay = None],
   [BaseForm EXCEPT !.authenticated = FALSE],
   [BaseForm EXCEPT !.timesheet = None],
   [BaseForm EXCEPT !.file_accepted = FALSE],
   [BaseForm EXCEPT !.year = MAX_YEAR + 1]}

\* the holidays stored by earlier requests
StoredHolidays == {{}, {<<2025, 1, 1>>, <<2025, 6, 6>>}}

InitRequests ==
  /\ requests \in [Requests -> {NewRequest(form) : form \in Forms}]
  /\ holidays_cache \in StoredHolidays
  /\ NoService
  /\ NoCalculator
  /\ df = <<>>
  /\ year = 0
  /\ month = 0
  /\ holiday_days = {}
  /\ parsed = None
  /\ day_num = 0
  /\ day_type = ""

\* _calc_core up to "holidays = parse_holidays_from_form(req)"
Validate(r) ==
  LET req == requests[r]
  IN  /\ req.pc = "received"
      /\ requests' =
           [requests EXCEPT ![r] =
              IF validation_error(req.form) # ""
                THEN Responded(req, error_response(validation_error(req.form)))
              ELSE [req EXCEPT !.pc = "holidays"]]
      /\ UNCHANGED holidays_cache

\* one turn of "for holiday in holidays": calendar_manager.add_holiday
AddHoliday(r) ==
  LET req == requests[r]
      date == holiday_date(req.form.holidays[req.k], req.form.year,
                           req.form.month)
  IN  /\ req.pc = "holidays"
      /\ req.k <= Len(req.form.holidays)
      /\ holidays_cache' =
           IF date = None THEN holidays_cache
           ELSE holidays_cache \cup {date[1]}
      /\ requests' = [requests EXCEPT ![r].k = req.k + 1]

\* the timesheet is parsed, the roster loaded, the dicts converted to
\* EmployeeData, and KPICalculator(year, month) enters get_holidays, whose
\* for loop makes an iterator over the holiday set
ParseAndConvert(r) ==
  LET req == requests[r]
      p == parsed_of(req.form)
  IN  /\ req.pc = "holidays"
      /\ req.k > Len(req.form.holidays)
      /\ requests' =
           [requests EXCEPT ![r] =
              IF p.error # "" THEN Responded(req, error_response("READ_ERROR"))
              ELSE IF \E i \in DOMAIN p.employees :
                        employee_data_raises(p.employees[i])
                THEN Responded(req, error_response("CALC_ERROR"))
              ELSE [req EXCEPT
                      !.pc = "get_holidays",
                      !.employees = [i \in DOMAIN p.employees |->
                                       employee_data_of(p.employees[i])],
                      !.si_used = Cardinality(holidays_cache),
                      !.left = holidays_cache]]
      /\ UNCHANGED holidays_cache

\* one step of the iterator of get_holidays: RuntimeError when the size of
\* the set is not the one the iterator started with (the exception leaves
\* calculate_kpi_for_employees and is caught by _calc_core); the next
\* element; or the end of the loop, after which calculate() runs and
\* _calc_core returns its lists
NextHoliday(r) ==
  LET req == requests[r]
      out == calculate(req.employees, StoredRoster, req.form.nchDay[1],
                       req.form.ndShift[1])
  IN  /\ req.pc = "get_holidays"
      /\ \/ /\ Cardinality(holidays_cache) # req.si_used
            /\ requests' =
                 [requests EXCEPT ![r] =
                    Responded(req, error_response("CALC_ERROR"))]
         \/ /\ Cardinality(holidays_cache) = req.si_used
            /\ req.left # {}
            /\ \E h \in req.left :
                 requests' = [requests EXCEPT ![r].left = req.left \ {h}]
         \/ /\ Cardinality(holidays_cache) = req.si_used
            /\ req.left = {}
            /\ requests' =
                 [requests EXCEPT ![r] =
                    Responded(req, ok_response(out.results, out.errors))]
      /\ UNCHANGED holidays_cache

NextRequests ==
  \E r \in Requests :
    \/ /\ Validate(r)
       /\ UNCHANGED <<calcVars, parserVars, serviceVars>>
    \/ /\ AddHoliday(r)
       /\ UNCHANGED <<calcVars, parserVars, serviceVars>>
    \/ /\ ParseAndConvert(r)
       /\ UNCHANGED <<calcVars, parserVars, serviceVars>>
    \/ /\ NextHoliday(r)
       /\ UNCHANGED <<calcVars, parserVars, serviceVars>>

SpecRequests == InitRequests /\ [][NextRequests]_vars

\* ============================================================ properties
\* vocabulary of the properties: the name key of the specification (trimmed,
\* case-insensitive), the records handled so far, the roster entry of a name
Key(fio) == lower(strip(fio))

Processed == 1..(idx - 1)

FirstOccurrence(i) ==
  \A j \in 1..(i - 1) : Key(employees[j].fio) # Key(employees[i].fio)

FirstIndexOf(k) ==
  CHOOSE i \in DOMAIN employees :
    /\ Key(employees[i].fio) = k
    /\ FirstOccurrence(i)

\* the attendance record a result was computed from
SourceOf(r) == employees[FirstIndexOf(Key(r.fio))]

RosterIndices(k) == {i \in DOMAIN kpi_table : Key(kpi_table[i].fio) = k}
InRoster(k) == k # STR_EMPTY /\ RosterIndices(k) # {}
\* later roster entries overwrite earlier ones
RosterItemOf(k) ==
  kpi_table[CHOOSE i \in RosterIndices(k) : \A j \in RosterIndices(k) : j <= i]

ResultsOf(k) == {i \in DOMAIN results : Key(results[i].fio) = k}
ErrorsOf(k)  == {i \in DOMAIN errors : Key(errors[i].fio) = k}
ErrorsOfType(k, type) == {i \in ErrorsOf(k) : errors[i].type = type}
RecordsOf(k) == {i \in DOMAIN employees : Key(employees[i].fio) = k}

Clamp(x, lo, hi) == IF x < lo THEN lo ELSE IF x > hi THEN hi ELSE x

\* days worked as the specification defines them, in thousandths of a day,
\* clamped and not yet rounded
ExpectedDayWorked(e, dayNorm) ==
  Clamp(IF e.worked_days_total = None
          THEN (dayNorm - e.letters_weekday) * Milli
          ELSE e.worked_days_total[1],
        0, dayNorm * Milli)

ExpectedShiftWorked(e, shiftNorm) ==
  Clamp((shiftNorm - (e.letters_weekday + e.letters_sat)) * Milli,
        0, shiftNorm * Milli)

ExpectedWorked(r) ==
  IF r.schedule_type = "day"
    THEN ExpectedDayWorked(SourceOf(r), r.days_assigned)
    ELSE ExpectedShiftWorked(SourceOf(r), r.days_assigned)

\* round(100 * w / norm, 2) and round(w / norm * kpiSum, 2), in hundredths
ExpectedPercent(w, norm) == RoundDiv(w * 100 * Cents, norm * Milli)
ExpectedFinal(w, norm, kpi_sum) ==
  round2(FracMul(Frac(w, norm * Milli), Frac(kpi_sum, Cents)))

\* ---------------------------------------------------------------- C1
\* C1: every KpiResult of either branch has 0 <= daysWorked <= daysAssigned
\* and 0 <= workPercent <= 100.
C1_ResultBounds ==
  \A i \in DOMAIN results :
    LET r == results[i]
    IN  /\ 0 <= r.days_worked
        /\ r.days_worked <= r.days_assigned * Cents
        /\ 0 <= r.work_percent
        /\ r.work_percent <= 100 * Cents

\* a day result whose timesheet total exceeds the norm was clamped to it
C1_Witness ==
  /\ pc = "done"
  /\ \E i \in DOMAIN results :
       LET r == results[i]
       IN  /\ r.schedule_type = "day"
           /\ SourceOf(r).worked_days_total = Some(5000)
           /\ r.days_worked = r.days_assigned * Cents
           /\ r.work_percent = 100 * Cents

\* ---------------------------------------------------------------- C2
\* C2 as stated: kpiFinal = round(workPercent / 100 * kpiSum, 2) with the
\* 2-decimal workPercent field of the same result.
C2_FinalFromRoundedPercent ==
  \A i \in DOMAIN results :
    LET r == results[i]
    IN  r.kpi_final =
          round2(FracMul(Frac(r.work_percent, Cents * 100),
                         Frac(r.kpi_sum, Cents)))

\* C2 amended: kpiFinal = round(p / 100 * kpiSum, 2) where p is the
\* percentage 100 * w / daysAssigned before it is rounded, w being the
\* days worked clamped to [0, daysAssigned].
C2_FinalFromExactPercent ==
  \A i \in DOMAIN results :
    LET r == results[i]
    IN  r.kpi_final = ExpectedFinal(ExpectedWorked(r), r.days_assigned, r.kpi_sum)

\* 20 of 22 days with kpiSum 15000: 13636.36, where the rounded 90.91 %
\* would give 13636.50
C2_Witness ==
  /\ pc = "done"
  /\ \E i \in DOMAIN results :
       LET r == results[i]
       IN  /\ r.days_assigned = 22
           /\ r.days_worked = 20 * Cents
           /\ r.work_percent = 9091
           /\ r.kpi_sum = KPI_SUM_15000
           /\ r.kpi_final = 1363636

\* ---------------------------------------------------------------- C3
NameKeys == {Key(employees[i].fio) : i \in DOMAIN employees} \ {STR_EMPTY}

\* C3 as stated: each distinct name yields at most one KpiResult or one
\* KpiError, never both and never two of either.
C3_OneOutcomePerName ==
  \A k \in NameKeys :
    Cardinality(ResultsOf(k)) + Cardinality(ErrorsOf(k)) <= 1

\* C3 amended: each distinct name yields at most one KpiResult or one error
\* other than DUPLICATE, never both; every record after the first one with
\* that name yields one DUPLICATE error on top of that.
C3_OneOutcomePlusDuplicates ==
  \A k \in NameKeys :
    LET handled == RecordsOf(k) \cap Processed
    IN  /\ Cardinality(ResultsOf(k))
             + Cardinality(ErrorsOf(k) \ ErrorsOfType(k, "DUPLICATE")) <= 1
        /\ handled # {} =>
             Cardinality(ErrorsOfType(k, "DUPLICATE"))
               = Cardinality(handled) - 1
        /\ handled = {} => ResultsOf(k) = {} /\ ErrorsOf(k) = {}

\* a name with a result and a DUPLICATE error
C3_Witness ==
  /\ pc = "done"
  /\ \E k \in NameKeys :
       /\ Cardinality(ResultsOf(k)) = 1
       /\ Cardinality(ErrorsOfType(k, "DUPLICATE")) = 1

\* ---------------------------------------------------------------- C4
\* C4: of two records whose names differ only by case or surrounding
\* whitespace, the first yields exactly one KpiResult or one non-DUPLICATE
\* error, the second exactly one DUPLICATE error and no result, and a result
\* of the first carries the first record's counters only.
C4_FirstOutcomeSecondDuplicate ==
  pc = "done" =>
    \A i, j \in DOMAIN employees :
      LET k == Key(employees[i].fio)
      IN  ( /\ i < j
            /\ k # STR_EMPTY
            /\ Key(employees[j].fio) = k
            /\ FirstOccurrence(i) )
          =>
          /\ Cardinality(ResultsOf(k))
               + Cardinality(ErrorsOf(k) \ ErrorsOfType(k, "DUPLICATE")) = 1
          /\ Cardinality(ErrorsOfType(k, "DUPLICATE"))
               = Cardinality(RecordsOf(k)) - 1
          /\ \A n \in ResultsOf(k) :
               /\ results[n].fio = employees[i].fio
               /\ results[n].letters_weekday = employees[i].letters_weekday

\* ---------------------------------------------------------------- C5
\* the roster entry of a record, and what the specification makes of it
ScheduleOf(item) == lower(strip(item.scheduleType))
IsStudentItem(item) == item.categoryCode = STR_4

\* records that the specification sends to a branch: first of their name,
\* in the roster, not a student
Eligible(i) ==
  LET k == Key(employees[i].fio)
  IN  /\ k # STR_EMPTY
      /\ FirstOccurrence(i)
      /\ InRoster(k)
      /\ ~IsStudentItem(RosterItemOf(k))

OnlyResultOf(k) == results[CHOOSE n \in ResultsOf(k) : TRUE]

\* C5 as stated: the daysWorked of a day-schedule employee is exactly
\* clamp(totalDaysWorked, 0, dayNorm), or clamp(dayNorm - lettersWeekday, 0,
\* dayNorm) when there is no total.
C5_DayWorkedIsClamp ==
  \A i \in DOMAIN results :
    LET r == results[i]
    IN  r.schedule_type = "day" =>
          r.days_worked * (Milli \div Cents)
            = ExpectedDayWorked(SourceOf(r), nch_day)

\* C5 amended: the daysWorked of a day-schedule employee is that clamp
\* rounded to 2 decimals; it, workPercent and kpiFinal are functions of
\* totalDaysWorked, lettersWeekday, dayNorm and kpiSum alone.
C5_DayWorkedIsRoundedClamp ==
  /\ \A i \in DOMAIN results :
       LET r == results[i]
           w == ExpectedDayWorked(SourceOf(r), nch_day)
       IN  r.schedule_type = "day" =>
             /\ nch_day > 0
             /\ r.days_assigned = nch_day
             /\ r.days_worked = RoundDiv(w * Cents, Milli)
             /\ r.work_percent = ExpectedPercent(w, nch_day)
             /\ r.kpi_final = ExpectedFinal(w, nch_day, r.kpi_sum)
  /\ pc = "done" =>
       \A i \in DOMAIN employees :
         LET k == Key(employees[i].fio)
         IN  ( /\ Eligible(i)
               /\ ScheduleOf(RosterItemOf(k)) = STR_DAY
               /\ nch_day > 0 )
             => /\ Cardinality(ResultsOf(k)) = 1
                /\ OnlyResultOf(k).schedule_type = "day"

\* the override wins: total 20, norm 22, 5 weekday letters give 20.00
C5_Witness ==
  /\ pc = "done"
  /\ nch_day = 22
  /\ \E i \in DOMAIN results :
       LET r == results[i]
       IN  /\ r.schedule_type = "day"
           /\ SourceOf(r).worked_days_total = Some(20000)
           /\ SourceOf(r).letters_weekday = 5
           /\ r.days_worked = 20 * Cents

\* ---------------------------------------------------------------- C6
\* C6: for a shift-schedule employee daysWorked = clamp(shiftNorm -
\* (lettersWeekday + lettersSaturday), 0, shiftNorm) and notWorked =
\* lettersWeekday + lettersSaturday; Sunday and holiday letters and
\* totalDaysWorked change nothing.
C6_ShiftWorked ==
  /\ \A i \in DOMAIN results :
       LET r == results[i]
           e == SourceOf(r)
           w == ExpectedShiftWorked(e, nd_shift)
       IN  r.schedule_type = "shift" =>
             /\ nd_shift > 0
             /\ r.days_assigned = nd_shift
             /\ r.days_worked * (Milli \div Cents) = w
             /\ r.not_worked = (e.letters_weekday + e.letters_sat) * Milli
             /\ r.work_percent = ExpectedPercent(w, nd_shift)
             /\ r.kpi_final = ExpectedFinal(w, nd_shift, r.kpi_sum)
  /\ pc = "done" =>
       \A i \in DOMAIN employees :
         LET k == Key(employees[i].fio)
         IN  ( /\ Eligible(i)
               /\ ScheduleOf(RosterItemOf(k)) = STR_SHIFT
               /\ nd_shift > 0 )
             => /\ Cardinality(ResultsOf(k)) = 1
                /\ OnlyResultOf(k).schedule_type = "shift"

\* shiftNorm 30 with 4 Sunday letters: daysWorked 30, notWorked 0
C6_Witness ==
  /\ pc = "done"
  /\ nd_shift = 30
  /\ \E i \in DOMAIN results :
       LET r == results[i]
       IN  /\ r.schedule_type = "shift"
           /\ SourceOf(r).letters_sun = 4
           /\ r.days_worked = 30 * Cents
           /\ r.not_worked = 0

\* ---------------------------------------------------------------- C7
\* the norm the specification applies to a roster entry
OperativeNorm(item) ==
  IF ScheduleOf(item) = STR_SHIFT THEN nd_shift ELSE nch_day

\* C7: a record that is first of its name, in the roster and not a student,
\* and whose operative norm is <= 0, yields exactly one INVALID_PLAN error
\* and no result.
C7_InvalidPlanReported ==
  pc = "done" =>
    \A i \in DOMAIN employees :
      LET k == Key(employees[i].fio)
      IN  ( /\ Eligible(i)
            /\ ScheduleOf(RosterItemOf(k)) \in {STR_DAY, STR_SHIFT}
            /\ OperativeNorm(RosterItemOf(k)) <= 0 )
          => /\ Cardinality(ErrorsOfType(k, "INVALID_PLAN")) = 1
             /\ ResultsOf(k) = {}

\* ---------------------------------------------------------------- C8
\* C8: a roster entry whose scheduleType is blank or neither day nor shift
\* is calculated with the day branch: norm dayNorm, absences lettersWeekday,
\* scheduleType day in the result.
C8_UnrecognizedScheduleIsDay ==
  pc = "done" =>
    \A i \in DOMAIN employees :
      LET k == Key(employees[i].fio)
          w == ExpectedDayWorked(employees[i], nch_day)
      IN  ( /\ Eligible(i)
            /\ ScheduleOf(RosterItemOf(k)) \notin {STR_DAY, STR_SHIFT}
            /\ nch_day > 0 )
          => /\ Cardinality(ResultsOf(k)) = 1
             /\ OnlyResultOf(k).schedule_type = "day"
             /\ OnlyResultOf(k).days_assigned = nch_day
             /\ OnlyResultOf(k).days_worked = RoundDiv(w * Cents, Milli)

\* ---------------------------------------------------------------- C9
\* C9: a record whose roster entry has categoryCode "4" never produces a
\* KpiResult; once the first record of that name is handled there is exactly
\* one STUDENT error for it, and nothing else but DUPLICATE errors.
C9_StudentExcluded ==
  \A i \in DOMAIN employees :
    LET k == Key(employees[i].fio)
    IN  ( /\ InRoster(k)
          /\ IsStudentItem(RosterItemOf(k)) )
        => /\ ResultsOf(k) = {}
           /\ i \in Processed =>
                /\ Cardinality(ErrorsOfType(k, "STUDENT")) = 1
                /\ ErrorsOf(k) \subseteq
                     ErrorsOfType(k, "STUDENT") \cup ErrorsOfType(k, "DUPLICATE")

\* a student with a timesheet total, letters and a positive norm: one STUDENT
\* error and no result
C9_Witness ==
  /\ pc = "done"
  /\ results = <<>>
  /\ nch_day > 0
  /\ nd_shift > 0
  /\ \E i \in DOMAIN employees :
       LET k == Key(employees[i].fio)
       IN  /\ InRoster(k)
           /\ IsStudentItem(RosterItemOf(k))
           /\ employees[i].worked_days_total # None
           /\ employees[i].letters_weekday > 0
           /\ Cardinality(ErrorsOfType(k, "STUDENT")) = 1

\* --------------------------------------------------------------- C10
\* C10 as stated: notWorked = max(daysAssigned - daysWorked, 0) and
\* daysWorked + notWorked = daysAssigned, for every result.
C10_NotWorkedIsRemainder ==
  \A i \in DOMAIN results :
    LET r == results[i]
        worked == r.days_worked * (Milli \div Cents)
    IN  /\ r.not_worked = Max(r.days_assigned * Milli - worked, 0)
        /\ worked + r.not_worked = r.days_assigned * Milli

\* C10 amended: in the day branch notWorked = max(daysAssigned - w, 0) for
\* the clamped days worked w before rounding, so daysWorked + notWorked
\* = daysAssigned up to the rounding of daysWorked; in the shift branch
\* notWorked = lettersWeekday + lettersSaturday, and daysWorked + notWorked
\* = daysAssigned only while that count is <= shiftNorm.
C10_NotWorkedByBranch ==
  \A i \in DOMAIN results :
    LET r == results[i]
        e == SourceOf(r)
        worked == r.days_worked * (Milli \div Cents)
        norm == r.days_assigned * Milli
    IN  IF r.schedule_type = "day"
          THEN /\ r.not_worked = Max(norm - ExpectedWorked(r), 0)
               /\ 2 * Abs(worked + r.not_worked - norm) <= Milli \div Cents
          ELSE /\ r.not_worked = (e.letters_weekday + e.letters_sat) * Milli
               /\ (worked + r.not_worked = norm)
                    <=> (e.letters_weekday + e.letters_sat <= r.days_assigned)

\* a shift result with more absences than the norm: notWorked exceeds
\* daysAssigned - daysWorked
C10_Witness ==
  /\ pc = "done"
  /\ \E i \in DOMAIN results :
       LET r == results[i]
       IN  /\ r.schedule_type = "shift"
           /\ r.days_worked = 0
           /\ r.not_worked > r.days_assigned * Milli

\* ---------------------------------------------------------------- C11
\* the wrapper's input record i cannot be converted
FailsInConversion(i) == employee_data_raises(employees_in[i])

\* the wrapper's input record i reaches the try block and raises there
FailsInTry(i) ==
  /\ ~FailsInConversion(i)
  /\ LET e == employee_data_of(employees_in[i])
         k == Key(e.fio)
         map == _build_kpi_map(kpi_table)
     IN  /\ k # STR_EMPTY
         /\ \A j \in 1..(i - 1) : Key(employees_in[j].fio) # k
         /\ k \in DOMAIN map
         /\ ~is_student(map[k])
         /\ calculation_raises(e, map[k], nch_day, nd_shift)

Failing == {i \in DOMAIN employees_in : FailsInConversion(i) \/ FailsInTry(i)}
FailingKeys == {Key(employees_in[i].fio) : i \in Failing}

\* the same dict with the values that make the computation fail taken out
RepairCounter(v) == IF int_or_0_raises(v) THEN NoValue ELSE v
Repaired(d) ==
  [d EXCEPT !.letters_weekday = RepairCounter(@),
            !.letters_sat = RepairCounter(@),
            !.letters_sun = RepairCounter(@),
            !.letters_holiday = RepairCounter(@),
            !.numbers_weekday = RepairCounter(@),
            !.numbers_sat = RepairCounter(@),
            !.numbers_sun = RepairCounter(@),
            !.numbers_holiday = RepairCounter(@),
            !.workedDaysTotal =
              IF @ # None /\ float_overflows(@) THEN None ELSE @]

\* what the run returns had no computation failed
WithoutFailure ==
  calculate([i \in DOMAIN employees_in |->
               employee_data_of(Repaired(employees_in[i]))],
            kpi_table, nch_day, nd_shift)

CalculationErrorsOf(k) ==
  {j \in DOMAIN errors :
     errors[j].type = "CALCULATION_ERROR" /\ Key(errors[j].fio) = k}

\* every failing record has its one CALCULATION_ERROR and every other
\* record has the outcome of the run without failure
IsolatedAtReturn ==
  /\ \A k \in FailingKeys : Cardinality(CalculationErrorsOf(k)) = 1
  /\ SelectSeq(errors, LAMBDA e : e.type # "CALCULATION_ERROR")
       = WithoutFailure.errors
  /\ results
       = SelectSeq(WithoutFailure.results,
                   LAMBDA r : Key(r.fio) \notin FailingKeys)

Occurrences(k) == {i \in DOMAIN employees : Key(employees[i].fio) = k}
NthOccurrence(k, n) ==
  CHOOSE i \in Occurrences(k) :
    Cardinality({j \in Occurrences(k) : j <= i}) = n

\* the record an entry of results comes from: the first record of its name
ResultOrigin(a) == FirstIndexOf(Key(results[a].fio))

\* the record entry j of errors comes from.  The first record of a name
\* gives at most one entry that is not a DUPLICATE, every later record of
\* the name gives one DUPLICATE.
ErrorOrigin(j) ==
  LET k == Key(errors[j].fio)
      rank == Cardinality({i \in ErrorsOf(k) : i <= j})
      first_failed == \E i \in ErrorsOf(k) : errors[i].type # "DUPLICATE"
  IN  IF errors[j].type # "DUPLICATE" THEN NthOccurrence(k, 1)
      ELSE IF first_failed THEN NthOccurrence(k, rank)
      ELSE NthOccurrence(k, rank + 1)

\* C12: the records are handled in input order and both lists keep it: the
\* entries of results come from records at increasing input positions, and
\* so do the entries of errors, each carrying the name of its own record.
C12_OrderPreserved ==
  /\ \A a, b \in DOMAIN results : a < b => ResultOrigin(a) < ResultOrigin(b)
  /\ \A a \in DOMAIN results : results[a].fio = employees[ResultOrigin(a)].fio
  /\ \A a, b \in DOMAIN errors : a < b => ErrorOrigin(a) < ErrorOrigin(b)
  /\ \A a \in DOMAIN errors :
       /\ ErrorOrigin(a) \in Processed
       /\ errors[a].fio = strip(employees[ErrorOrigin(a)].fio)

\* both records of the input have produced a result
C12_Witness ==
  /\ pc = "done"
  /\ Len(results) = 2

\* ---------------------------------------------------------------- C20
\* C20: a second call of calculate() with the same records, roster and
\* norms returns the same results list and the same errors list, entry by
\* entry and in the same order, as the first call.
C20_SecondRunSameOutput ==
  pc = "done" /\ previous # None =>
    /\ results = previous[1].results
    /\ errors = previous[1].errors

\* a second call has returned a result and an error
C20_Witness ==
  /\ pc = "done"
  /\ previous # None
  /\ results # <<>>
  /\ errors # <<>>

\* ---------------------------------------------------------------- C14
\* the weekday index of a date by Sakamoto's method (0 = Monday), and the
\* dates of the calendar, written independently of the model of date()
SakamotoOffsets == <<0, 3, 2, 5, 0, 3, 5, 1, 4, 6, 2, 4>>
WeekdayIndex(y, m, d) ==
  LET yy == IF m < 3 THEN y - 1 ELSE y
      sunday0 == (yy + yy \div 4 - yy \div 100 + yy \div 400
                  + SakamotoOffsets[m] + d) % 7
  IN  (sunday0 + 6) % 7
MonthLength(y, m) ==
  IF m \in {4, 6, 9, 11} THEN 30
  ELSE IF m # 2 THEN 31
  ELSE IF (y % 4 = 0 /\ y % 100 # 0) \/ y % 400 = 0 THEN 29 ELSE 28
IsCalendarDate(y, m, d) ==
  m \in 1..12 /\ d \in 1..MonthLength(y, m)

Classified == day_type # ""

\* C14: a day number in the holiday set is classified holiday, also on a
\* calendar Saturday or Sunday; a day outside it is classified saturday
\* ("sat") iff its weekday index is 5, sunday ("sun") iff it is 6, and
\* weekday otherwise.
C14_HolidayFirstThenWeekday ==
  Classified =>
    IF day_num \in holiday_days THEN day_type = "holiday"
    ELSE LET dated == IsCalendarDate(year, month, day_num)
             wd == WeekdayIndex(year, month, day_num)
         IN  /\ day_type = "sat" <=> (dated /\ wd = 5)
             /\ day_type = "sun" <=> (dated /\ wd = 6)
             /\ day_type = "weekday" <=> ~(dated /\ wd \in {5, 6})

\* a holiday that falls on a calendar Saturday has been classified
C14_Witness ==
  /\ Classified
  /\ day_num \in holiday_days
  /\ IsCalendarDate(year, month, day_num)
  /\ WeekdayIndex(year, month, day_num) = 5
  /\ day_type = "holiday"

\* ---------------------------------------------------------------- C15
\* C15: a day number that is no date of the month and is not in the
\* holiday set is classified weekday; the classifier returns, no error.
C15_InvalidDateIsWeekday ==
  Classified /\ ~IsCalendarDate(year, month, day_num)
             /\ day_num \notin holiday_days
    => day_type = "weekday"

\* day 31 of a 30-day month, not a holiday, has been classified
C15_Witness ==
  /\ Classified
  /\ day_num = 31
  /\ MonthLength(year, month) = 30
  /\ day_num \notin holiday_days
  /\ day_type = "weekday"


\* --------------------------------------------------------------- C16
GridHasNameHeader ==
  \E r \in DOMAIN df : \E c \in DOMAIN df[r] : strip(df[r][c]) = KZ_HEADER

FirstRowHasEmployee ==
  df # <<>> /\ \E c \in DOMAIN df[1] : df[1][c] = SIMPLE_HEADER

\* C16: every grid has one outcome of the detection.  A grid that holds the
\* name header anywhere is handled by the first layout alone, whether or not
\* its first row has an "Employee" column and whether or not the first layout
\* then fails; a grid without name header whose first row has the "Employee"
\* column is handled by the second layout; any other grid ends in an error
\* and no attendance record.  An error never comes with records.
C16_OneLayoutOrError ==
  parsed # None =>
    LET p == parsed[1]
    IN  /\ GridHasNameHeader =>
              /\ p.layout = "A"
              /\ p = _parse_kz_template(df, year, month, holiday_days)[1]
        /\ ~GridHasNameHeader /\ FirstRowHasEmployee =>
              /\ p.layout = "B"
              /\ p.error = ""
              /\ p = _parse_simple_template(df, year, month, holiday_days)[1]
        /\ ~GridHasNameHeader /\ ~FirstRowHasEmployee =>
              /\ p.layout = "none"
              /\ p.error = "UNKNOWN_FORMAT"
        /\ p.error # "" => p.employees = <<>>

\* a grid with both signals has been parsed, by the first layout, into a record
C16_Witness ==
  /\ parsed # None
  /\ GridHasNameHeader
  /\ FirstRowHasEmployee
  /\ parsed[1].layout = "A"
  /\ parsed[1].employees # <<>>

\* --------------------------------------------------------------- C17
\* the row of the day labels and the day columns of the parsed grid
DayLabelRow ==
  IF parsed[1].layout = "B" THEN 1
  ELSE 1 + CHOOSE r \in DOMAIN df :
             /\ row_has_kz_header(df[r])
             /\ \A o \in 1..(r - 1) : ~row_has_kz_header(df[o])

IsDayColumn(c) ==
  LET label == df[DayLabelRow][c]
  IN  IF parsed[1].layout = "B"
        THEN /\ Len(label) = 2
             /\ isdigit(label)
             /\ \A o \in 1..(c - 1) : df[DayLabelRow][o] # label
        ELSE isdigit(strip(label))

DayColumns == {c \in DOMAIN df[DayLabelRow] : IsDayColumn(c)}

DayKind(c) ==
  _classify_day(year, month, int_of(strip(df[DayLabelRow][c])), holiday_days)

\* the rows below the day labels, in order
RowsBelowLabels == AscendingSeq(DayLabelRow + 1, Len(df))

\* the column of the names: the first one that holds the header text
NameColumn ==
  LET r == DayLabelRow - (IF parsed[1].layout = "B" THEN 0 ELSE 1)
      is_header(c) == IF parsed[1].layout = "B" THEN df[r][c] = SIMPLE_HEADER
                      ELSE strip(df[r][c]) = KZ_HEADER
  IN  CHOOSE c \in DOMAIN df[r] :
        is_header(c) /\ \A o \in 1..(c - 1) : ~is_header(o)

\* the rows a record is read from, in order: the rows below the day labels
\* that have a name (the text "nan" in the second layout when the cell has no
\* value) other than the header text of the first layout
RecordRows ==
  SelectSeq(RowsBelowLabels,
    LAMBDA r :
      LET cell == df[r][NameColumn]
      IN  IF parsed[1].layout = "B" THEN cell = <<>> \/ strip(cell) # <<>>
          ELSE strip(cell) # <<>> /\ strip(cell) # KZ_HEADER)

CounterNames ==
  {"letters_weekday", "letters_sat", "letters_sun", "letters_holiday",
   "numbers_weekday", "numbers_sat", "numbers_sun", "numbers_holiday"}

CounterOf(rec, n) ==
  CASE n = "letters_weekday" -> rec.letters_weekday[1]
    [] n = "letters_sat"     -> rec.letters_sat[1]
    [] n = "letters_sun"     -> rec.letters_sun[1]
    [] n = "letters_holiday" -> rec.letters_holiday[1]
    [] n = "numbers_weekday" -> rec.numbers_weekday[1]
    [] n = "numbers_sat"     -> rec.numbers_sat[1]
    [] n = "numbers_sun"     -> rec.numbers_sun[1]
    [] n = "numbers_holiday" -> rec.numbers_holiday[1]

\* the counter a counted cell of column c belongs to
ExpectedCounter(cell, c) ==
  (IF _try_float(strip(cell)) # None THEN "numbers_" ELSE "letters_")
    \o DayKind(c)

RECURSIVE SumOver(_, _)
SumOver(f, S) ==
  IF S = {} THEN 0
  ELSE LET x == CHOOSE y \in S : TRUE IN f[x] + SumOver(f, S \ {x})

\* every counter of every record is the number of day cells of its row that
\* are not passed over and belong to it, and the eight counters add up to
\* the number of day cells that are not passed over
CountersMatch(PassedOver(_)) ==
  (parsed # None /\ parsed[1].error = "") =>
    /\ Len(parsed[1].employees) = Len(RecordRows)
    /\ \A j \in DOMAIN parsed[1].employees :
      LET rec == parsed[1].employees[j]
          row == df[RecordRows[j]]
          counted == {c \in DayColumns : ~PassedOver(row[c])}
      IN  /\ \A n \in CounterNames :
               CounterOf(rec, n) =
                 Cardinality({c \in counted : ExpectedCounter(row[c], c) = n})
          /\ SumOver([n \in CounterNames |-> CounterOf(rec, n)], CounterNames)
               = Cardinality(counted)

\* the cells the statement lists: no value, blank, dash, capital day-off mark
ListedAsSkipped(cell) ==
  \/ cell = <<>>
  \/ strip(cell) = <<>>
  \/ strip(cell) = <<"-">>
  \/ strip(cell) = <<CYR_VE_CAPITAL>>

\* the same, the day-off mark in either letter case
SkippedEitherCase(cell) ==
  \/ ListedAsSkipped(cell)
  \/ strip(cell) = <<CYR_VE_SMALL>>

\* C17 as stated: in both layouts a day cell that is empty, blank, "-" or
\* the capital day-off mark changes no counter, and every other day cell adds
\* one to numbers_<kind> when it parses as a number and to letters_<kind>
\* otherwise; the eight counters sum to the number of the other cells.
C17_AsStated == CountersMatch(ListedAsSkipped)

\* C17 amended: the same with the day-off mark passed over in its small
\* form too.
C17_CountersCountCells == CountersMatch(SkippedEitherCase)

\* a record has been read from a row with a small day-off mark in one day
\* column and a counted cell in another
C17_Witness ==
  /\ parsed # None
  /\ parsed[1].error = ""
  /\ \E j \in DOMAIN parsed[1].employees :
       LET row == df[RecordRows[j]]
       IN  /\ \E c \in DayColumns : strip(row[c]) = <<CYR_VE_SMALL>>
           /\ \E c \in DayColumns : ~SkippedEitherCase(row[c])

\* --------------------------------------------------------------- C13
\* C13: a grid of the first layout with the day labels 1..30, one employee
\* row with letters on two weekdays and numbers on every other day, no
\* column of totals, a day norm of 22 and a day-schedule roster entry of
\* 15000 gives one result, with 20 days worked, 90.91 per cent and 13636.36,
\* and no error.
C13_EndToEndExample ==
  (pc = "done" /\ parsed # None) =>
    /\ Len(results) = 1
    /\ errors = <<>>
    /\ results[1].days_worked = 20 * Cents
    /\ results[1].work_percent = 9091
    /\ results[1].kpi_final = 1363636

\* the run has returned, for a row whose two letters fall on weekdays
C13_Witness ==
  /\ pc = "done"
  /\ parsed # None
  /\ Len(parsed[1].employees) = 1
  /\ parsed[1].employees[1].letters_weekday = IntValue(2)
  /\ parsed[1].employees[1].workedDaysTotal = None
  /\ Len(results) = 1
\* --------------------------------------------------------------- C18
HasResponded(r) == requests[r].pc = "responded"
ResponseOf(r) == requests[r].response[1]

\* the form passes the checks made before the norms are compared
ReachesTheNorms(form) ==
  /\ form.authenticated
  /\ form.timesheet # None
  /\ form.file_accepted
  /\ form.nchDay # None
  /\ form.ndShift # None

NormsNotSet(form) ==
  ReachesTheNorms(form) /\ form.nchDay[1] <= 0 /\ form.ndShift[1] <= 0

\* the grid has neither the name header nor, in its first row, "Employee"
GridUnrecognised(form) ==
  LET grid == form.timesheet[1]
  IN  /\ form.timesheet # None
      /\ \A r \in DOMAIN grid : \A c \in DOMAIN grid[r] :
           strip(grid[r][c]) # KZ_HEADER
      /\ grid = <<>> \/ \A c \in DOMAIN grid[1] : grid[1][c] # SIMPLE_HEADER

\* the first row with the name header is the last row of the grid
NoDayRow(form) ==
  LET grid == form.timesheet[1]
  IN  /\ form.timesheet # None
      /\ \E c \in DOMAIN grid[Len(grid)] :
           strip(grid[Len(grid)][c]) = KZ_HEADER
      /\ \A r \in 1..(Len(grid) - 1) : \A c \in DOMAIN grid[r] :
           strip(grid[r][c]) # KZ_HEADER

AloneResponse(form) ==
  IF validation_error(form) # "" THEN error_response(validation_error(form))
  ELSE IF parsed_of(form).error # "" THEN error_response("READ_ERROR")
  ELSE LET emps == parsed_of(form).employees
           out == calculate([i \in DOMAIN emps |-> employee_data_of(emps[i])],
                            StoredRoster, form.nchDay[1], form.ndShift[1])
       IN  ok_response(out.results, out.errors)

\* C19: two requests served in any interleaving are independent: each one
\* is answered with the results and errors it is answered with when it runs
\* alone.
C19_RequestsIndependent ==
  \A r \in DOMAIN requests :
    HasResponded(r) => ResponseOf(r) = AloneResponse(requests[r].form)


\* ------------------------------------------------------- the roster file
\* A row of KPI_FILE is [id, fio, kpiSum, department]; scheduleType and
\* categoryCode are written and logged exactly as department is.  Rows of
\* the logs carry no timestamp.
MaxOps == 4   \* successful operations on the roster in one run

\* df["fio"].astype(str).str.strip().str.lower() == fio.strip().lower()
fio_exists(rows, fio) ==
  \E i \in DOMAIN rows : lower(strip(rows[i].fio)) = lower(strip(fio))

\* df["id"] == emp_id
id_mask(rows, emp_id) == {i \in DOMAIN rows : rows[i].id = emp_id}

\* df[mask].iloc[0]
first_row(rows, mask) == rows[CHOOSE i \in mask : \A o \in mask : i <= o]

\* variant: the id is one more than the number of rows
new_id_by_count(rows) == Len(rows) + 1

\* 1 if df.empty, else int(df["id"].max()) + 1
new_id(rows) ==
  IF rows = <<>> THEN 1
  ELSE 1 + CHOOSE m \in {rows[i].id : i \in DOMAIN rows} :
             \A i \in DOMAIN rows : rows[i].id <= m

\* what a storage function gives: the files it leaves, and whether it raised
raised_error(fs) == [raised |-> TRUE, files |-> fs, rec |-> None]
returned(fs, rec) == [raised |-> FALSE, files |-> fs, rec |-> Some(rec)]

log_row(user, rec) ==
  [user |-> user, id |-> rec.id, fio |-> rec.fio, kpiSum |-> rec.kpiSum,
   department |-> rec.department]

log_added(fs, user, rec) ==
  [fs EXCEPT !.added = Append(@, log_row(user, rec))]

log_deleted(fs, user, rec) ==
  [fs EXCEPT !.deleted = Append(@, log_row(user, rec))]

log_edited(fs, user, old, new) ==
  [fs EXCEPT !.edited =
     Append(@, [user |-> user, id |-> new.id,
                fio_old |-> old.fio, department_old |-> old.department,
                kpiSum_old |-> old.kpiSum,
                fio_new |-> new.fio, department_new |-> new.department,
                kpiSum_new |-> new.kpiSum])]

log_restored(fs, user, rec) ==
  [fs EXCEPT !.restored = Append(@, log_row(user, rec))]

add_employee(fs, user, fio, kpiSum, department) ==
  IF fio_exists(fs.kpi, fio) THEN raised_error(fs)
  ELSE LET rec == [id |-> new_id(fs.kpi), fio |-> strip(fio),
                   kpiSum |-> kpiSum, department |-> strip(department)]
       IN  returned(log_added([fs EXCEPT !.kpi = Append(@, rec)], user, rec),
                    rec)

\* fio, department and kpiSum are None or Some(value)
edit_employee(fs, user, emp_id, fio, department, kpiSum, allow_kpi_edit) ==
  LET mask == id_mask(fs.kpi, emp_id)
  IN  IF fs.kpi = <<>> \/ mask = {} THEN raised_error(fs)
      ELSE
        LET edited(row) ==
              [row EXCEPT
                 !.fio = IF fio # None THEN strip(fio[1]) ELSE @,
                 !.department =
                   IF department # None THEN strip(department[1]) ELSE @,
                 !.kpiSum =
                   IF allow_kpi_edit /\ kpiSum # None THEN kpiSum[1] ELSE @]
            rows == [i \in DOMAIN fs.kpi |->
                       IF i \in mask THEN edited(fs.kpi[i]) ELSE fs.kpi[i]]
            old == first_row(fs.kpi, mask)
            new == first_row(rows, mask)
        IN  returned(log_edited([fs EXCEPT !.kpi = rows], user, old, new), new)

delete_employee(fs, user, emp_id) ==
  LET mask == id_mask(fs.kpi, emp_id)
  IN  IF fs.kpi = <<>> \/ mask = {} THEN raised_error(fs)
      ELSE
        LET rec == first_row(fs.kpi, mask)
            rows == SelectSeq(fs.kpi, LAMBDA row : row.id # emp_id)
        IN  returned(log_deleted([fs EXCEPT !.kpi = rows], user, rec), rec)

\* the try block of kpi_restore: add_employee, then log_restored
restore_employee(fs, user, fio, kpiSum, department) ==
  LET out == add_employee(fs, user, fio, kpiSum, department)
  IN  IF out.raised THEN out
      ELSE returned(log_restored(out.files, user, out.rec[1]), out.rec[1])

\* ---------------------------------------- the storage functions in turn
DEPT_1 == <<"d", "1">>
DEPT_2 == <<"d", "2">>

StorageUser == "admin-nnmc"

StorageNames == {FIO_A, FIO_A_UPPER, FIO_B}

\* arguments of edit_employee: fio, department, kpiSum, allow_kpi_edit
EditInputs ==
  {<<None, None, None, FALSE>>,
   <<Some(FIO_A_UPPER), None, None, FALSE>>,
   <<Some(FIO_B), None, None, FALSE>>,
   <<None, Some(DEPT_2), Some(KPI_SUM_250_5), FALSE>>,
   <<None, None, Some(KPI_SUM_250_5), TRUE>>}

\* everything but the roster file, the sessions and the clock
batchVars == <<legacy, calcVars, parserVars, requestVars>>

StorageBudget ==
  Len(files.added) + Len(files.deleted) + Len(files.edited) < MaxOps

Stored(op, out) ==
  /\ files' = out.files
  /\ last' = [op |-> op, token |-> 0, used |-> 0,
              response |-> IF out.raised THEN "ValueError" ELSE "ok"]
  /\ UNCHANGED <<SESSIONS, issued, now>>
  /\ UNCHANGED batchVars

AddEmployee ==
  /\ StorageBudget
  /\ \E fio \in StorageNames :
       Stored("add_employee",
              add_employee(files, StorageUser, fio, KPI_SUM_15000, DEPT_1))

EditEmployee ==
  /\ StorageBudget
  /\ \E emp_id \in 1..MaxOps : \E inp \in EditInputs :
       Stored("edit_employee",
              edit_employee(files, StorageUser, emp_id, inp[1], inp[2],
                            inp[3], inp[4]))

DeleteEmployee ==
  /\ StorageBudget
  /\ \E emp_id \in 1..MaxOps :
       Stored("delete_employee",
              delete_employee(files, StorageUser, emp_id))

RestoreEmployee ==
  /\ StorageBudget
  /\ \E fio \in {FIO_A, FIO_B} :
       Stored("kpi_restore",
              restore_employee(files, StorageUser, fio, KPI_SUM_250_5,
                               DEPT_1))

InitStorage ==
  /\ NoParser
  /\ NoCalculator

NextStorage ==
  AddEmployee \/ EditEmployee \/ DeleteEmployee \/ RestoreEmployee

SpecStorage == InitStorage /\ [][NextStorage]_vars


\* ----------------------------------------------------------- the sessions
\* A token is the number of the create_session call that returned it
\* (secrets.token_hex(32) is taken never to repeat); 0 is the empty token.
\* The clock does not go back.
SESSION_TIMEOUT == 3600

MaxTokens == 2   \* calls of create_session in one run
MaxTicks  == 4   \* the clock advances MaxTicks times, half a timeout each

ADMIN == [login |-> "admin-nnmc", role |-> "admin"]
CLERK == [login |-> "clerk", role |-> "user"]
Users == {ADMIN, CLERK}

\* variant: nothing is deleted
without_deleting(sessions, gone) == sessions

\* SESSIONS without the tokens of `gone`
without(sessions, gone) ==
  [t \in (DOMAIN sessions) \ gone |-> sessions[t]]

\* create_session: the token, and SESSIONS with its session
create_session(sessions, count, user, t_now) ==
  LET token == count + 1
  IN  [token |-> token,
       sessions |-> [t \in (DOMAIN sessions) \cup {token} |->
                       IF t = token
                         THEN [user |-> user,
                               expires_at |-> t_now + SESSION_TIMEOUT]
                         ELSE sessions[t]]]

\* datetime.now() > expires_at
is_expired(t_now, expires_at) == t_now > expires_at

\* get_user_by_token: the user or None, and SESSIONS as the call leaves it
get_user_by_token(sessions, token, t_now) ==
  IF token = 0 THEN [user |-> None, sessions |-> sessions]
  ELSE IF token \notin DOMAIN sessions
    THEN [user |-> None, sessions |-> sessions]
  ELSE IF is_expired(t_now, sessions[token].expires_at)
    THEN [user |-> None, sessions |-> without(sessions, {token})]
  ELSE [user |-> Some(sessions[token].user), sessions |-> sessions]

cleanup_expired_sessions(sessions, t_now) ==
  without(sessions,
          {t \in DOMAIN sessions : is_expired(t_now, sessions[t].expires_at)})

\* how a lookup is recorded: the login of the user, or "None"
user_text(user) == IF user = None THEN "None" ELSE user[1].login

\* the tokens a client may send: none, issued ones, one never issued
Tokens == 0..(MaxTokens + 1)

CreateSession ==
  /\ Len(issued) < MaxTokens
  /\ \E user \in Users :
       LET out == create_session(SESSIONS, Len(issued), user, now)
       IN  /\ SESSIONS' = out.sessions
           /\ issued' = Append(issued, now + SESSION_TIMEOUT)
           /\ last' = [op |-> "create_session", token |-> out.token,
                       used |-> 0, response |-> user.login]
  /\ UNCHANGED <<files, now>>
  /\ UNCHANGED batchVars

GetUserByToken ==
  /\ \E token \in Tokens :
       LET out == get_user_by_token(SESSIONS, token, now)
       IN  /\ SESSIONS' = out.sessions
           /\ last' = [op |-> "get_user_by_token", token |-> token,
                       used |-> 0, response |-> user_text(out.user)]
  /\ UNCHANGED <<files, issued, now>>
  /\ UNCHANGED batchVars

CleanupExpiredSessions ==
  /\ SESSIONS' = cleanup_expired_sessions(SESSIONS, now)
  /\ last' = [op |-> "cleanup_expired_sessions", token |-> 0,
              used |-> 0, response |-> ""]
  /\ UNCHANGED <<files, issued, now>>
  /\ UNCHANGED batchVars

Tick ==
  /\ now < MaxTicks * (SESSION_TIMEOUT \div 2)
  /\ now' = now + (SESSION_TIMEOUT \div 2)
  /\ UNCHANGED <<files, SESSIONS, issued, last>>
  /\ UNCHANGED batchVars

InitSessions ==
  /\ NoParser
  /\ NoCalculator

NextSessions ==
  CreateSession \/ GetUserByToken \/ CleanupExpiredSessions \/ Tick

SpecSessions == InitSessions /\ [][NextSessions]_vars


\* ------------------------------------------------------------ the service
\* A request is served in two steps: before_request starts the loop of
\* cleanup_expired_sessions over SESSIONS.items(), and then the loop ends
\* and the endpoint runs.  A login served by another thread in between puts
\* a session into SESSIONS; the iterator then raises RuntimeError
\* (dictionary changed size during iteration) and the request is answered
\* with status 500.
Endpoints ==
  {"kpi_add", "kpi_edit", "kpi_delete", "kpi_restore", "add_holiday",
   "remove_holiday", "calc_kpi"}

\* no token, the tokens issued, one that never was
ServiceTokens == 0..(MaxTokens + 2)

reply(fs, cache, response) ==
  [files |-> fs, holidays |-> cache, response |-> response]

\* the answer after a storage call: its files, or the message of what it
\* raised with status 400
after_storage(out, cache) ==
  reply(out.files, cache, IF out.raised THEN "error" ELSE "ok")

kpi_add(fs, cache, user, fio, kpiSum, department) ==
  IF strip(fio) = <<>> \/ kpiSum <= 0 \/ strip(department) = <<>>
    THEN reply(fs, cache, "error")
  ELSE after_storage(add_employee(fs, user.login, strip(fio), kpiSum,
                                  strip(department)), cache)

kpi_edit(fs, cache, user, emp_id, fio, department, kpiSum) ==
  IF \/ fio # None /\ strip(fio[1]) = <<>>
     \/ department # None /\ strip(department[1]) = <<>>
    THEN reply(fs, cache, "error")
  ELSE after_storage(edit_employee(fs, user.login, emp_id, fio, department,
                                   kpiSum, user.role = "admin"), cache)

kpi_delete(fs, cache, user, emp_id) ==
  after_storage(delete_employee(fs, user.login, emp_id), cache)

kpi_restore(fs, cache, user, fio, kpiSum, department) ==
  IF strip(fio) = <<>> \/ strip(department) = <<>>
    THEN reply(fs, cache, "error")
  ELSE after_storage(restore_employee(fs, user.login, strip(fio), kpiSum,
                                      strip(department)), cache)

\* the date is <<y, m, d>>; strptime raises ValueError on no date
add_holiday(fs, cache, ymd) ==
  IF ~date_is_valid(ymd[1], ymd[2], ymd[3]) THEN reply(fs, cache, "error")
  ELSE reply(fs, cache \cup {ymd}, "ok")

remove_holiday(fs, cache, ymd) ==
  IF ~date_is_valid(ymd[1], ymd[2], ymd[3]) THEN reply(fs, cache, "error")
  ELSE IF ymd \in cache THEN reply(fs, cache \ {ymd}, "ok")
  ELSE reply(fs, cache, "not_found")

\* load_kpi_table(): the rows of KPI_FILE as roster dicts
load_kpi_table(fs) ==
  [i \in DOMAIN fs.kpi |->
     RosterItem(fs.kpi[i].fio, fs.kpi[i].kpiSum, STR_DAY, <<"1">>)]

\* _calc_core after the user was found: the error message or "ok" (the
\* lists of the answer are not kept), and the calendar it leaves
calc_core(fs, cache, form) ==
  LET f == [form EXCEPT !.authenticated = TRUE]
      dates == {holiday_date(f.holidays[i], f.year, f.month) :
                  i \in DOMAIN f.holidays}
      added == {d[1] : d \in dates \ {None}}
      p == parsed_of(f)
  IN  IF validation_error(f) # "" THEN reply(fs, cache, validation_error(f))
      ELSE IF p.error # "" THEN reply(fs, cache \cup added, "READ_ERROR")
      ELSE IF \E i \in DOMAIN p.employees :
                employee_data_raises(p.employees[i])
        THEN reply(fs, cache \cup added, "CALC_ERROR")
      ELSE LET out == calculate(
                        [i \in DOMAIN p.employees |->
                           employee_data_of(p.employees[i])],
                        load_kpi_table(fs), f.nchDay[1], f.ndShift[1])
           IN  reply(fs, cache \cup added,
                     IF out.results = <<>> /\ out.errors = <<>> THEN "ok_empty"
                     ELSE "ok")

\* before_request and require_auth_from_request: the sessions they leave
\* and the user, or None
authenticate(sessions, token, t_now) ==
  get_user_by_token(cleanup_expired_sessions(sessions, t_now), token, t_now)

\* two roster operations besides the one of the initial state
ServiceBudget ==
  Len(files.added) + Len(files.deleted) + Len(files.edited) < MaxOps - 1

ServiceFrame ==
  /\ UNCHANGED <<legacy, requests, issued, now>>
  /\ UNCHANGED calcVars
  /\ UNCHANGED parserVars

\* before_request: the loop over SESSIONS.items() begins
BeforeRequest ==
  /\ last.response # "pending"
  /\ \E op \in Endpoints : \E token \in ServiceTokens :
       last' = [op |-> op, token |-> token,
                used |-> Cardinality(DOMAIN SESSIONS),
                response |-> "pending"]
  /\ UNCHANGED <<files, SESSIONS, holidays_cache>>
  /\ ServiceFrame

\* login, served by another thread while the request is in before_request
LoginMeanwhile ==
  /\ last.response = "pending"
  /\ Len(issued) < MaxTokens + 1
  /\ SESSIONS' = create_session(SESSIONS, Len(issued), CLERK, now).sessions
  /\ issued' = Append(issued, now + SESSION_TIMEOUT)
  /\ UNCHANGED <<files, holidays_cache, last, now, legacy, requests>>
  /\ UNCHANGED calcVars
  /\ UNCHANGED parserVars

\* the rest of the request `op`; body(user) is what the endpoint does once
\* the user is known
Serve(op, body(_)) ==
  /\ last.response = "pending"
  /\ last.op = op
  /\ IF Cardinality(DOMAIN SESSIONS) # last.used
       THEN /\ last' = [last EXCEPT !.response = "INTERNAL_ERROR"]
            /\ UNCHANGED <<files, SESSIONS, holidays_cache>>
     ELSE
       LET auth == authenticate(SESSIONS, last.token, now)
       IN  /\ SESSIONS' = auth.sessions
           /\ IF auth.user = None
                THEN /\ last' = [last EXCEPT !.response = "AUTH_REQUIRED"]
                     /\ UNCHANGED <<files, holidays_cache>>
              ELSE LET out == body(auth.user[1])
                   IN  /\ files' = out.files
                       /\ holidays_cache' = out.holidays
                       /\ last' = [last EXCEPT !.response = out.response]
  /\ ServiceFrame

KpiAdd ==
  /\ ServiceBudget
  /\ \E inp \in {<<FIO_A, KPI_SUM_250_5>>, <<FIO_B, KPI_SUM_250_5>>,
                  <<FIO_B, 0>>} :
       Serve("kpi_add",
             LAMBDA user : kpi_add(files, holidays_cache, user, inp[1],
                                   inp[2], DEPT_1))

KpiEdit ==
  /\ ServiceBudget
  /\ \E emp_id \in {1, 2} :
       \E inp \in {<<Some(FIO_A_UPPER), None, Some(KPI_SUM_250_5)>>,
                   <<None, Some(DEPT_2), Some(KPI_SUM_250_5)>>,
                   <<Some(FIO_BLANK), None, None>>} :
         Serve("kpi_edit",
               LAMBDA user : kpi_edit(files, holidays_cache, user, emp_id,
                                      inp[1], inp[2], inp[3]))

KpiDelete ==
  /\ ServiceBudget
  /\ \E emp_id \in {1, 2} :
       Serve("kpi_delete",
             LAMBDA user : kpi_delete(files, holidays_cache, user, emp_id))

KpiRestore ==
  /\ ServiceBudget
  /\ Serve("kpi_restore",
           LAMBDA user : kpi_restore(files, holidays_cache, user, FIO_A, 0,
                                     DEPT_1))

HolidayAdd ==
  /\ last.op = "add_holiday"
  /\ \E ymd \in {<<2025, 6, 9>>, <<2025, 6, 31>>} :
       Serve("add_holiday",
             LAMBDA user : add_holiday(files, holidays_cache, ymd))

HolidayRemove ==
  /\ last.op = "remove_holiday"
  /\ Serve("remove_holiday",
           LAMBDA user : remove_holiday(files, holidays_cache,
                                        <<2025, 6, 9>>))

CalcKpi ==
  /\ last.op = "calc_kpi"
  /\ \E form \in {[BaseForm EXCEPT !.holidays = <<DayEntry(9)>>],
                   [BaseForm EXCEPT !.nchDay = Some(0)]} :
       Serve("calc_kpi", LAMBDA user : calc_core(files, holidays_cache, form))

\* the clerk logged in at 0, the administrator half a timeout later and
\* added one employee
InitService ==
  /\ files = add_employee(EmptyFiles, ADMIN.login, FIO_A, KPI_SUM_15000,
                          DEPT_1).files
  /\ SESSIONS =
       create_session(create_session(<<>>, 0, CLERK, 0).sessions, 1, ADMIN,
                      SESSION_TIMEOUT \div 2).sessions
  /\ issued = <<SESSION_TIMEOUT, SESSION_TIMEOUT + (SESSION_TIMEOUT \div 2)>>
  /\ now = SESSION_TIMEOUT \div 2
  /\ last = NoOperation
  /\ legacy = None
  /\ requests = <<>>
  /\ holidays_cache = {}
  /\ df = <<>>
  /\ year = 0
  /\ month = 0
  /\ holiday_days = {}
  /\ parsed = None
  /\ day_num = 0
  /\ day_type = ""
  /\ NoCalculator

NextService ==
  \/ BeforeRequest
  \/ LoginMeanwhile
  \/ KpiAdd
  \/ KpiEdit
  \/ KpiDelete
  \/ KpiRestore
  \/ HolidayAdd
  \/ HolidayRemove
  \/ CalcKpi
  \/ Tick

SpecService == InitService /\ [][NextService]_vars

\* --------------------------------------------------------------- C21
\* the fields both calculators emit, the name trimmed
CommonFields(r) ==
  [fio |-> strip(r.fio),
   schedule_type |-> r.schedule_type,
   days_assigned |-> r.days_assigned,
   not_worked |-> r.not_worked,
   letters_weekday |-> r.letters_weekday,
   letters_sat |-> r.letters_sat,
   letters_sun |-> r.letters_sun,
   letters_holiday |-> r.letters_holiday,
   numbers_weekday |-> r.numbers_weekday,
   numbers_sat |-> r.numbers_sat,
   numbers_sun |-> r.numbers_sun,
   numbers_holiday |-> r.numbers_holiday,
   work_percent |-> r.work_percent,
   kpi_sum |-> r.kpi_sum,
   kpi_final |-> r.kpi_final]

SameOutput ==
  /\ legacy[1].errors = errors
  /\ [i \in DOMAIN legacy[1].results |-> CommonFields(legacy[1].results[i])]
       = [i \in DOMAIN results |-> CommonFields(results[i])]

\* C21: on the same attendance records, roster and norms the legacy
\* calculator and KPICalculator.calculate give the same sequence of errors
\* (name and kind) and the same sequence of results in every field both
\* emit; only the rounding of daysWorked may differ.
C21_LegacyAgrees == legacy # None => SameOutput

\* --------------------------------------------------------------- C22
\* the row of the name header of a grid parsed by the first layout
HeaderRow == DayLabelRow - 1

IsMarker(cell) == lower(strip(cell)) = lower(strip(TOTAL_MARKER))

\* the rows from lo to hi that hold the marker of the totals
MarkerRows(lo, hi) ==
  {r \in DOMAIN df \cap (lo..hi) : \E c \in DOMAIN df[r] : IsMarker(df[r][c])}

\* the column of the first marker of the first of these rows
MarkerColumn(rows) ==
  LET r == CHOOSE q \in rows : \A o \in rows : q <= o
  IN  CHOOSE c \in DOMAIN df[r] :
        IsMarker(df[r][c]) /\ \A o \in 1..(c - 1) : ~IsMarker(df[r][o])

\* a marker between `above` rows over the header and `below` rows under it
\* gives every record the number of its column; no marker there gives none
TotalsFromWindow(above, below) ==
  (parsed # None /\ parsed[1].error = "" /\ parsed[1].layout = "A") =>
    LET rows == MarkerRows(HeaderRow - above, HeaderRow + below)
    IN  /\ Len(parsed[1].employees) = Len(RecordRows)
        /\ \A j \in DOMAIN parsed[1].employees :
             parsed[1].employees[j].workedDaysTotal =
               IF rows = {} THEN None
               ELSE _try_float(df[RecordRows[j]][MarkerColumn(rows)])

\* C22: in the first layout a marker of the totals in any row from 2 rows
\* above the header row to 5 rows below it is found and its column fills
\* totalDaysWorked of every employee row; a marker outside that window is
\* ignored and totalDaysWorked stays null.
C22_MarkerWindow == TotalsFromWindow(2, 5)

\* --------------------------------------------------------------- C23
\* the label of column c is the number of a day of a month
LabelIsDayOfMonth(c) ==
  int_of(strip(df[DayLabelRow][c])) \in 1..31

\* every counter of every record counts the cells of these columns only
CountersFromColumns(cols) ==
  (parsed # None /\ parsed[1].error = "") =>
    /\ Len(parsed[1].employees) = Len(RecordRows)
    /\ \A j \in DOMAIN parsed[1].employees :
         \A n \in CounterNames :
           CounterOf(parsed[1].employees[j], n) =
             Cardinality({c \in cols :
                            /\ ~SkippedEitherCase(df[RecordRows[j]][c])
                            /\ ExpectedCounter(df[RecordRows[j]][c], c) = n})

\* C23: only columns labelled with a day number in 1..31 are day columns: a
\* digit label outside 1..31 in the day row of the first layout (0, 32) and
\* a two-digit header outside "01".."31" in the second ("00", "45") adds to
\* none of the eight counters of any employee.
C23_OnlyDaysOfMonth ==
  CountersFromColumns({c \in DayColumns : LabelIsDayOfMonth(c)})

\* --------------------------------------------------------------- C24
NameKey(row) == lower(strip(row.fio))

NamesUnique ==
  \A i, j \in DOMAIN files.kpi :
    i # j => NameKey(files.kpi[i]) # NameKey(files.kpi[j])

\* C24: after any sequence of add_employee, edit_employee, delete_employee
\* and restore operations from an empty roster no two roster entries have
\* the same name, trimmed and compared without case; an operation that
\* would create such a pair fails and leaves the roster unchanged.
C24_NamesUnique == NamesUnique

\* --------------------------------------------------------------- C25
IdsOf(rows) == [i \in DOMAIN rows |-> rows[i].id]

IdsUnique ==
  \A i, j \in DOMAIN files.kpi : i # j => files.kpi[i].id # files.kpi[j].id

\* a step of edit_employee that did not raise writes one row of the log
EditKeepsIds ==
  files'.edited # files.edited => IdsOf(files'.kpi) = IdsOf(files.kpi)

\* C25: after any sequence of add_employee, edit_employee, delete_employee
\* and restore operations from an empty roster no two entries present in
\* the roster have the same id, and edit_employee never changes the id of
\* an entry.
C25_IdsUnique == [][IdsUnique' /\ EditKeepsIds]_vars

\* an entry has been deleted, another added after it and one edited
C25_Witness ==
  /\ Len(files.kpi) >= 1
  /\ Len(files.added) >= 2
  /\ Len(files.deleted) >= 1
  /\ Len(files.edited) >= 1
  /\ files.edited[Len(files.edited)].fio_new
       # files.edited[Len(files.edited)].fio_old

\* --------------------------------------------------------------- C30
\* C30: an id that add_employee assigns was never held by another entry:
\* over any sequence of add_employee and delete_employee the id of a new
\* entry differs from the id of every entry present and of every entry
\* deleted earlier, so log rows with one id refer to one employee.
C30_IdsNeverReused ==
  \A i, j \in DOMAIN files.added :
    i # j => files.added[i].id # files.added[j].id

\* --------------------------------------------------------------- C27
\* a step of get_user_by_token, and of cleanup_expired_sessions: every
\* operation on the sessions records itself and leaves the clock alone
LookupStep == last'.op = "get_user_by_token" /\ now' = now
CleanupStep == last'.op = "cleanup_expired_sessions" /\ now' = now

WasIssued(token) == token \in DOMAIN issued

PastExpiry(token) == WasIssued(token) /\ now > issued[token]

\* a lookup gives a user exactly for an issued token that is not past its
\* expires_at and still in SESSIONS; past it the lookup gives None and the
\* session is gone afterwards
LookupChecksExpiry ==
  LookupStep =>
    LET token == last'.token
    IN  /\ last'.response # "None" =>
             /\ WasIssued(token)
             /\ ~PastExpiry(token)
             /\ token \in DOMAIN SESSIONS
             /\ last'.response = SESSIONS[token].user.login
        /\ PastExpiry(token) =>
             /\ last'.response = "None"
             /\ token \notin DOMAIN SESSIONS'

CleanupRemovesExpired ==
  CleanupStep => \A t \in DOMAIN SESSIONS' : ~PastExpiry(t)

\* a session keeps the expires_at it was created with, and a removed
\* session does not come back
SessionsOnlyEnd ==
  \A t \in DOMAIN SESSIONS' :
    /\ t \in DOMAIN issued'
    /\ SESSIONS'[t].expires_at = issued'[t]
    /\ WasIssued(t) => t \in DOMAIN SESSIONS

\* C27: get_user_by_token returns a user only for a token that
\* create_session issued and whose expires_at is not past; once the time
\* is later than expires_at every lookup of the token returns None, the
\* session is removed from SESSIONS by the lookup or by
\* cleanup_expired_sessions, and the token never becomes valid again.
C27_ExpiredForGood ==
  [][LookupChecksExpiry /\ CleanupRemovesExpired /\ SessionsOnlyEnd]_vars

\* a token was looked up past its expires_at: it gave None and its session
\* is gone, while a younger session is still there
C27_Witness ==
  /\ last.op = "get_user_by_token"
  /\ last.response = "None"
  /\ last.token \in DOMAIN issued
  /\ now > issued[last.token]
  /\ last.token \notin DOMAIN SESSIONS
  /\ \E t \in DOMAIN SESSIONS : now <= issued[t]

\* --------------------------------------------------------------- C26
\* C26: holidays submitted with a calculation request are temporary: after
\* the request has finished, with a result or an error, the calendar of
\* calendar_manager holds exactly the dates it held before (StoredHolidays
\* are the calendars the requests start from).
C26_HolidaysTemporary ==
  (requests # <<>> /\ \A r \in DOMAIN requests : HasResponded(r)) =>
    holidays_cache \in StoredHolidays

\* --------------------------------------------------------------- C28
\* every row of the logs but the first is by a user who is no administrator
OnlyClerkActed ==
  /\ \A i \in DOMAIN files.added : i > 1 => files.added[i].user = CLERK.login
  /\ \A i \in DOMAIN files.deleted : files.deleted[i].user = CLERK.login
  /\ \A i \in DOMAIN files.edited : files.edited[i].user = CLERK.login
  /\ \A i \in DOMAIN files.restored : files.restored[i].user = CLERK.login

\* C28: no sequence of kpi-add, kpi-edit, kpi-delete and kpi-restore
\* requests made with sessions whose role is not admin changes the kpiSum
\* stored for an employee name that is already present (here the name the
\* administrator added first).
C28_KpiSumKept ==
  (files.added # <<>> /\ OnlyClerkActed) =>
    \A i \in DOMAIN files.kpi :
      NameKey(files.kpi[i]) = lower(strip(files.added[1].fio)) =>
        files.kpi[i].kpiSum = files.added[1].kpiSum

\* --------------------------------------------------------------- C29
\* the step that answers the request in flight
AnswerStep == last.response = "pending" /\ last'.response # "pending"

\* the request in flight carries no token, an unknown one or an expired one
NoValidToken ==
  \/ last.token = 0
  \/ last.token \notin DOMAIN SESSIONS
  \/ now > SESSIONS[last.token].expires_at

\* C29: a request to kpi-add, kpi-edit, kpi-delete, kpi-restore, the
\* holiday add and remove endpoints or a calc-kpi endpoint with no token, an
\* unknown token or an expired token is answered with AUTH_REQUIRED and
\* leaves the roster, the audit logs and the holiday calendar unchanged.
C29_AuthRequired ==
  [][(AnswerStep /\ NoValidToken) =>
       /\ last'.response = "AUTH_REQUIRED"
       /\ files' = files
       /\ holidays_cache' = holidays_cache]_vars
====
